---- MODULE Spec2Model ----
(***************************************************************************)
(* State-machine model of the messaging client: the TransportManager       *)
(* (socket lifecycle, framing, reconnection, heartbeat), the CryptoManager *)
(* (session store, envelope encryption) and the MessageHandler send path.  *)
(***************************************************************************)
EXTENDS Integers, Sequences, FiniteSets, TLC

(***************************************************************************)
(* Bounds of the model.                                                    *)
(***************************************************************************)
\* connect() calls (each creates one socket) and disconnect() calls explored
\* by the connection-lifecycle specification
MaxSockets == 3
MaxDisconnects == 1
\* connect() calls, disconnect() calls and socket writes explored by the
\* specification of sending over the lifecycle
SendSockets == 2
SendDisconnects == 1
MaxSends == 1
\* connect() calls and socket writes explored by the specification of
\* concurrent senders on one manager
WireSockets == 1
WireSends == 3
\* sockets and frames written when the frame format is explored
CodecSockets == 1
CodecSends == 1
\* bytes written to one socket when the frame format is explored
CodecBytes == 65538
\* data events the bytes of one frame are split across
MaxChunks == 3
\* concurrent callers of the crypto manager
MaxTasks == 2
\* concurrent and finished calls of the message handler
MsgTasks == 1
MsgSockets == 1
\* sockets, authenticate() and verifySMSCode() calls when authentication is
\* explored
AuthSockets == 1
MaxAuthCalls == 2
MaxVerifies == 2
\* group calls
MaxGroupCalls == 3
GroupSockets == 1
\* calls of the client's operations, before and after authentication
MaxClientCalls == 3
\* group calls when membership and admin rights change
AdminCalls == 4
\* performSync calls and messages sent while syncs run
MaxSyncs == 3
MaxSyncMsgs == 2
\* sockets when a connection is lost while a frame is arriving
RebufferSockets == 2
\* sockets when frames of unknown type arrive
UnknownSockets == 1
\* concurrent crypto calls when envelopes cross between peers
PeerTasks == 2
\* sockets when the manager reconnects on its own
ReconnectSockets == 3
\* calls of the client's logger
MaxLogs == 3
\* sockets when malformed frames arrive
MalformedSockets == 1
\* sockets when the reconnection budget is run down
BudgetSockets == 4
\* sockets, crypto callers and handleIncomingMessage calls when incoming
\* messages are explored
InboundSockets == 1
InboundTasks == 1
MaxInbound == 2
MaxMsgs == 2
\* callers of the crypto manager whose envelopes come back to decryptMessage
EnvelopeTasks == 1

(***************************************************************************)
(* Program constants of the TransportManager.                              *)
(***************************************************************************)
maxReconnectAttempts == 5
reconnectDelay == 1000
HeaderLen == 9
HeartbeatType == 8
\* the longest payload whose frame length fits the 16-bit prefix
MaxPayload == 65535 - HeaderLen

\* "no id given" (the default parameter id = null of sendMessage)
NoId == <<-1, -1>>

VARIABLES
    \* ---- TransportManager fields
    isConnected,        \* this.isConnected
    socket,             \* this.socket: 0 is null, otherwise a socket number
    reconnectAttempts,  \* this.reconnectAttempts
    heartbeatInterval,  \* this.heartbeatInterval: 0 is null, otherwise a timer
    \* ---- the runtime the manager lives in
    nsock,              \* sockets created so far (one per connect() call)
    sockState,          \* state of every socket ever created
    connectWait,        \* the promise connect() awaits, per socket
    timers,             \* pending setTimeout reconnections (their delays)
    intervals,          \* live setInterval heartbeat timers
    wire,               \* bytes written to each socket, in order
    emitted,            \* events emitted by the latest step, in order
    \* ---- observations
    sendLog,            \* inputs of the sendMessage calls that wrote a frame
    lastSend,           \* outcome of the latest sendMessage call
    failures,           \* socket failures since the last successful connect
    scheduledSince,     \* delays scheduled since the last successful connect
    closedByCaller,     \* disconnect() was called and connect() not since
    exhausted,          \* 'transport:max_reconnect_attempts' was emitted and
                        \* the caller has not invoked connect() since
    callsAtClose,       \* nsock when disconnect() was last called
    nDisc,              \* disconnect() calls so far
    everConnected,      \* a connect() has completed successfully
    caps,               \* the bounds this behaviour is explored under
    \* ---- CryptoManager
    sessionStore,       \* this.sessionStore: peer id -> session
    task,               \* the async calls in flight, one record per caller
    created,            \* createSession calls so far, per peer
    rand,               \* random values drawn so far (each draw is fresh)
    lastDecrypt,        \* the latest decryptMessage call and its outcome
    \* ---- TransportManager: the receiving side
    buffer,             \* this.buffer: bytes received and not yet parsed
    dispatched,         \* the messages handed to handleMessage, in order
    whole,              \* the bytes the peer sends on this connection
    cuts,               \* where the stream is cut into data events
    pos,                \* bytes delivered so far
    \* ---- WhatsAppClient and MessageHandler
    isAuthenticated,    \* client.isAuthenticated
    handlerLog,         \* the finished sendTextMessage / sendMediaMessage /
                        \* sendGroupMessage calls of the handler, in order
    incoming,           \* the latest handleIncomingMessage call
    receivedMessages,   \* ids of messageHandler.receivedMessages
    clientMessages,     \* the 'message' events the client emitted, in order
    authState,          \* authManager.authState
    sessionData,        \* authManager.sessionData
    phoneNumber,        \* client.options.phoneNumber ("" when not given)
    dateNow,              \* Date.now()
    authCall,           \* the authManager call that awaits its request
    lastAuth,           \* the latest authenticate() call
    smsRequests,        \* registration requests made so far
    verifies,           \* verifySMSCode calls made so far
    start,              \* the client's start() call
    readyLog,           \* isAuthenticated at each 'ready' the client emitted
    groups,             \* groupManager.groups
    groupParticipants,  \* groupManager.groupParticipants
    lastGroup,          \* the latest createGroup / addParticipants call
    groupCalls,         \* group calls made so far
    logLevel,           \* the logLevel option the client was built with
    logger,             \* the client's logger: its module and its level
    lastLog,            \* the latest call of logger.log
    logged,             \* the levels of the lines the logger has output
    \* ---- MultiDeviceSync and the message handler's sent store
    syncState,          \* sync.syncState: lastSyncTimestamp, syncInProgress
    syncTask,           \* the performSync calls, one record per call
    sentMessages,       \* messageHandler.sentMessages: id and timestamp
    pendingMessages,    \* messages sendTextMessage has built and not stored
    syncReports,        \* the local changes of each completed sync, in order
    \* ---- the client's public operations
    lastClient,         \* the latest call of a client operation
    deviceList          \* sync.syncState.deviceList: the device ids

tvars_but_wire == <<isConnected, socket, reconnectAttempts, heartbeatInterval,
                    nsock, sockState, connectWait, timers, intervals>>
tvars == <<isConnected, socket, reconnectAttempts, heartbeatInterval, nsock,
           sockState, connectWait, timers, intervals, wire, emitted>>
cvars == <<sessionStore, task, created, rand, lastDecrypt>>
\* what no transport operation touches, and what no crypto operation touches
rvars == <<buffer, dispatched, whole, cuts, pos>>
mvars == <<isAuthenticated, handlerLog>>
ivars == <<incoming, receivedMessages, clientMessages>>
avars == <<authState, sessionData, phoneNumber, dateNow, authCall, lastAuth,
           smsRequests, verifies, start, readyLog>>
gvars == <<groups, groupParticipants, lastGroup, groupCalls>>
svars == <<syncState, syncTask, sentMessages, pendingMessages, syncReports>>
kvars == <<lastClient, deviceList>>
xvars == <<logLevel, logger, lastLog, logged, svars, kvars>>
uvars == <<avars, gvars, xvars>>
notExtra == <<tvars, sendLog, lastSend, failures, scheduledSince,
              closedByCaller, exhausted, callsAtClose, nDisc, everConnected,
              caps, cvars, rvars, ivars, mvars, avars, gvars>>
notClient == <<sendLog, lastSend, failures, scheduledSince, closedByCaller,
               exhausted, callsAtClose, nDisc, everConnected, caps, cvars,
               rvars, ivars>>
notCrypto_but_handler ==
    <<tvars, sendLog, lastSend, failures, scheduledSince, closedByCaller, exhausted,
      callsAtClose, nDisc, everConnected, caps, rvars, ivars, uvars>>
notTransport == <<caps, cvars, rvars, mvars, ivars, uvars>>
notReceive == <<tvars, sendLog, lastSend, failures, scheduledSince,
                closedByCaller, exhausted, callsAtClose, nDisc, everConnected, caps, cvars,
                mvars, ivars, uvars>>
hvars == <<sendLog, lastSend, failures, scheduledSince, closedByCaller, exhausted,
           callsAtClose, nDisc, everConnected, notTransport>>
notCrypto == <<tvars, sendLog, lastSend, failures, scheduledSince,
               closedByCaller, exhausted, callsAtClose, nDisc, everConnected, caps,
               rvars, mvars, ivars, uvars>>
vars == <<tvars, hvars>>

Max(a, b) == IF a > b THEN a ELSE b
Min(a, b) == IF a < b THEN a ELSE b

Sockets == 1..Max(Max(Max(MaxSockets, MsgSockets), Max(CodecSockets, Max(Max(BudgetSockets, Max(ReconnectSockets, Max(UnknownSockets, Max(RebufferSockets, MalformedSockets)))),
                    Max(Max(AuthSockets, GroupSockets), InboundSockets)))),
                  Max(SendSockets, WireSockets))
(***************************************************************************)
(* Frame codec.                                                            *)
(***************************************************************************)
Pow2(n) == 2 ^ n

U16BE(n) == <<(n \div 256) % 256, n % 256>>

\* a 32-bit unsigned value is the pair <<high 16 bits, low 16 bits>>
U32(n) == <<(n \div 65536) % 65536, n % 65536>>

U32BE(w) == <<w[1] \div 256, w[1] % 256, w[2] \div 256, w[2] % 256>>

ReadU16BE(b, o) == b[o + 1] * 256 + b[o + 2]

ReadU32BE(b, o) == <<b[o + 1] * 256 + b[o + 2], b[o + 3] * 256 + b[o + 4]>>

\* (mutation) the length prefix counts the payload only
EncodeFrame_PayloadLen(type, id, ts, data) ==
    U16BE(Len(data)) \o <<type>> \o U32BE(id) \o U32BE(ts) \o data

\* the bytes sendMessage hands to socket.write: length prefix, type, id,
\* timestamp, payload
EncodeFrame(type, id, ts, data) ==
    LET messageBuffer == <<type>> \o U32BE(id) \o U32BE(ts) \o data
    IN  U16BE(Len(messageBuffer)) \o messageBuffer

\* decodeMessage: null (ok = FALSE) when a read runs past the end of data
decodeMessage(data) ==
    IF Len(data) < HeaderLen
    THEN [ok |-> FALSE, type |-> 0, id |-> U32(0), timestamp |-> U32(0),
          data |-> <<>>]
    ELSE [ok |-> TRUE, type |-> data[1], id |-> ReadU32BE(data, 1),
          timestamp |-> ReadU32BE(data, 5),
          data |-> SubSeq(data, HeaderLen + 1, Len(data))]

\* parseMessage on a buffer: got = FALSE is the null return; rest is the
\* buffer it leaves behind
parseMessage(buf) ==
    IF Len(buf) < 3
    THEN [got |-> FALSE, rest |-> buf, msg |-> decodeMessage(<<>>)]
    ELSE LET length == ReadU16BE(buf, 0)
         IN  IF Len(buf) < length + 2
             THEN [got |-> FALSE, rest |-> buf, msg |-> decodeMessage(<<>>)]
             ELSE LET m == decodeMessage(SubSeq(buf, 3, length + 2))
                  IN  [got |-> m.ok,
                       rest |-> SubSeq(buf, length + 3, Len(buf)),
                       msg |-> m]

(***************************************************************************)
(* TransportManager: reconnection.                                         *)
(***************************************************************************)
Emit(e, ev) == Append(e, ev)

\* a timer list with one more timeout of the given delay (kept by delay)
RECURSIVE AddTimer(_, _)
AddTimer(ts, d) ==
    IF ts = <<>> \/ d <= Head(ts)
    THEN <<d>> \o ts
    ELSE <<Head(ts)>> \o AddTimer(Tail(ts), d)

\* the delay attemptReconnect computes after incrementing the counter to n
ReconnectDelayOf(n) == reconnectDelay * Pow2(n - 1)

\* (mutation) attemptReconnect always gives up
ReconnectExhausted_Always(n) == TRUE

\* attemptReconnect gives up when the budget is used
ReconnectExhausted(n) == n >= maxReconnectAttempts

\* attemptReconnect; e is what the calling handler emitted before it, after
\* what is emitted once it has returned
attemptReconnect(e, after) ==
    IF ReconnectExhausted(reconnectAttempts)
    THEN /\ emitted' = Emit(e, "transport:max_reconnect_attempts") \o after
         /\ exhausted' = TRUE
         /\ UNCHANGED <<reconnectAttempts, timers, scheduledSince>>
    ELSE /\ reconnectAttempts' = reconnectAttempts + 1
         /\ timers' = AddTimer(timers, ReconnectDelayOf(reconnectAttempts + 1))
         /\ scheduledSince' =
                Append(scheduledSince, ReconnectDelayOf(reconnectAttempts + 1))
         /\ emitted' = e \o after
         /\ UNCHANGED exhausted

handleConnectionError(e, after) ==
    /\ isConnected' = FALSE
    /\ attemptReconnect(Emit(e, "transport:error"), after)

handleConnectionClose ==
    /\ isConnected' = FALSE
    /\ attemptReconnect(<<"transport:disconnected">>, <<>>)

\* a socket whose 'close' is due in the tick that is running: nothing else
\* runs before it is delivered
ClosePending == \E s \in Sockets : sockState[s] \in {"errored", "destroyed"}

(***************************************************************************)
(* TransportManager: connect and disconnect.                               *)
(***************************************************************************)
\* connect() up to its await: a new socket replaces this.socket
connectBody ==
    /\ nsock < caps.sock
    /\ nsock' = nsock + 1
    /\ socket' = nsock + 1
    /\ sockState' = [sockState EXCEPT ![nsock + 1] = "connecting"]
    /\ connectWait' = [connectWait EXCEPT ![nsock + 1] = "pending"]

\* the caller invokes connect()
Connect ==
    /\ ~ClosePending
    /\ connectBody
    /\ closedByCaller' = FALSE
    /\ exhausted' = FALSE
    /\ emitted' = <<>>
    /\ UNCHANGED <<isConnected, reconnectAttempts, heartbeatInterval, timers,
                   intervals, wire, sendLog, lastSend, failures,
                   scheduledSince, callsAtClose, nDisc, everConnected,
                   notTransport>>

\* a reconnection timer set by attemptReconnect fires and calls connect()
ReconnectTimerFire ==
    /\ ~ClosePending
    /\ \E i \in 1..Len(timers) :
           timers' = SubSeq(timers, 1, i - 1) \o SubSeq(timers, i + 1, Len(timers))
    /\ connectBody
    /\ emitted' = <<>>
    /\ UNCHANGED <<isConnected, reconnectAttempts, heartbeatInterval,
                   intervals, wire, hvars>>

\* the socket reports 'connect'; a connect() still awaiting it completes
SocketConnect(s) ==
    /\ ~ClosePending
    /\ sockState[s] = "connecting"
    /\ sockState' = [sockState EXCEPT ![s] = "open"]
    /\ IF connectWait[s] = "pending"
       THEN /\ connectWait' = [connectWait EXCEPT ![s] = "none"]
            /\ isConnected' = TRUE
            /\ reconnectAttempts' = 0
            /\ heartbeatInterval' = s
            /\ intervals' = intervals \cup {s}
            /\ emitted' = <<"transport:connected">>
            /\ failures' = 0
            /\ scheduledSince' = <<>>
            /\ everConnected' = TRUE
       ELSE /\ emitted' = <<>>
            /\ UNCHANGED <<connectWait, isConnected, reconnectAttempts,
                           heartbeatInterval, intervals, failures,
                           scheduledSince, everConnected>>
    /\ UNCHANGED <<socket, nsock, timers, wire, sendLog, lastSend,
                   closedByCaller, exhausted, callsAtClose, nDisc, notTransport>>

\* the 30 s timer of connect() rejects the promise it still awaits
ConnectTimeout(s) ==
    /\ ~ClosePending
    /\ connectWait[s] = "pending"
    /\ connectWait' = [connectWait EXCEPT ![s] = "none"]
    /\ emitted' = <<"transport:error">>
    /\ UNCHANGED <<isConnected, socket, reconnectAttempts, heartbeatInterval,
                   nsock, sockState, timers, intervals, wire, hvars>>

\* the socket reports 'error': the handler of setupSocketHandlers runs, then
\* the once('error', reject) of a connect() still waiting
SocketError(s) ==
    /\ ~ClosePending
    /\ sockState[s] \in {"connecting", "open"}
    /\ sockState' = [sockState EXCEPT ![s] = "errored"]
    /\ failures' = failures + 1
    /\ IF connectWait[s] = "pending"
       THEN /\ connectWait' = [connectWait EXCEPT ![s] = "none"]
            /\ handleConnectionError(<<>>, <<"transport:error">>)
       ELSE /\ UNCHANGED connectWait
            /\ handleConnectionError(<<>>, <<>>)
    /\ UNCHANGED <<socket, heartbeatInterval, nsock, intervals, wire, sendLog,
                   lastSend, closedByCaller, callsAtClose, nDisc, everConnected,
                   notTransport>>

\* the peer ends the stream: 'end'
SocketEnd(s) ==
    /\ ~ClosePending
    /\ sockState[s] = "open"
    /\ sockState' = [sockState EXCEPT ![s] = "ended"]
    /\ failures' = failures + 1
    /\ handleConnectionClose
    /\ UNCHANGED <<socket, heartbeatInterval, nsock, connectWait, intervals,
                   wire, sendLog, lastSend, closedByCaller, callsAtClose, nDisc, everConnected,
                   notTransport>>

\* 'close', which follows 'error', 'end' and destroy()
SocketClose(s) ==
    /\ sockState[s] \in {"errored", "ended", "destroyed"}
    /\ sockState[s] = "ended" => ~ClosePending
    /\ sockState' = [sockState EXCEPT ![s] = "closed"]
    /\ handleConnectionClose
    /\ UNCHANGED <<socket, heartbeatInterval, nsock, connectWait, intervals,
                   wire, sendLog, lastSend, failures, closedByCaller,
                   callsAtClose, nDisc, everConnected, notTransport>>

\* disconnect() clears the heartbeat timer it holds
ClearedIntervals == IF heartbeatInterval # 0
                    THEN intervals \ {heartbeatInterval}
                    ELSE intervals

\* disconnect()
Disconnect ==
    /\ ~ClosePending
    /\ nDisc < caps.disc
    /\ nDisc' = nDisc + 1
    /\ isConnected' = FALSE
    /\ intervals' = ClearedIntervals
    /\ heartbeatInterval' = 0
    /\ sockState' = IF socket # 0 /\ sockState[socket] \in {"connecting", "open", "ended"}
                    THEN [sockState EXCEPT ![socket] = "destroyed"]
                    ELSE sockState
    /\ socket' = 0
    /\ emitted' = <<"transport:disconnected">>
    /\ closedByCaller' = TRUE
    /\ callsAtClose' = nsock
    /\ UNCHANGED <<reconnectAttempts, nsock, connectWait, timers, wire,
                   sendLog, lastSend, failures, scheduledSince, exhausted,
                   everConnected, notTransport>>

(***************************************************************************)
(* TransportManager: sendMessage and the heartbeat.                        *)
(***************************************************************************)
IsU32(w) == w[1] \in 0..65535 /\ w[2] \in 0..65535

\* (mutation) the guard without the isConnected test
NotConnected_SocketOnly == socket = 0

\* the guard of sendMessage: !this.isConnected || !this.socket
NotConnected == ~isConnected \/ socket = 0

\* (mutation) any length is written
LengthFits_Always(data) == TRUE

\* lengthBuffer.writeUInt16BE(messageBuffer.length, 0) throws above 65535
LengthFits(data) == HeaderLen + Len(data) <= 65535

\* const messageId = id || this.generateMessageId(): null and 0 are falsy
MessageIdOf(id, gen) == IF id = NoId \/ id = U32(0) THEN gen ELSE id

\* Math.floor(Date.now() / 1000)
TimestampOf(now) == U32(now \div 1000)

\* sendMessage up to socket.write: the id it returns, or the error thrown
\* (the Buffer write methods throw on a value out of range)
sendMessageResult(type, data, id, gen, now) ==
    IF NotConnected
    THEN [ok |-> FALSE, err |-> "Not connected to server", id |-> NoId]
    ELSE LET messageId == MessageIdOf(id, gen)
         IN  IF \/ type \notin 0..255
                \/ ~IsU32(messageId)
                \/ ~LengthFits(data)
             THEN [ok |-> FALSE, err |-> "ERR_OUT_OF_RANGE", id |-> NoId]
             ELSE [ok |-> TRUE, err |-> "", id |-> messageId]

\* fullMessage: the bytes a successful sendMessage hands to socket.write
fullMessage(type, data, id, gen, now) ==
    EncodeFrame(type, MessageIdOf(id, gen), TimestampOf(now), data)

\* sendMessage: one socket.write of the whole frame, or a throw
sendMessage(type, data, id, gen, now) ==
    LET r == sendMessageResult(type, data, id, gen, now)
    IN  /\ lastSend' = [ok |-> r.ok, err |-> r.err, id |-> r.id, idArg |-> id,
                         len |-> Len(data)]
        /\ IF r.ok
           THEN /\ Len(sendLog) < caps.send
                /\ caps.bytes > 0 =>
                       Len(wire[socket]) + 2 + HeaderLen + Len(data) <= caps.bytes
                /\ wire' = [wire EXCEPT ![socket] =
                               @ \o fullMessage(type, data, id, gen, now)]
                /\ sendLog' = Append(sendLog,
                       [sock |-> socket, type |-> type, id |-> r.id,
                        idArg |-> id, timestamp |-> TimestampOf(now),
                        data |-> data])
           ELSE UNCHANGED <<wire, sendLog>>

\* decimal digits of n as ASCII
RECURSIVE Digits(_)
Digits(n) == IF n < 10 THEN <<48 + n>> ELSE Digits(n \div 10) \o <<48 + (n % 10)>>

\* Buffer.from(JSON.stringify({timestamp: Date.now()}))
HeartbeatData(now) ==
    <<123, 34, 116, 105, 109, 101, 115, 116, 97, 109, 112, 34, 58>>
        \o Digits(now) \o <<125>>

\* Date.now() values explored (milliseconds)
Clock == {2500}
WireClock == {70000000}
CodecClock == {70000000}
\* values generateMessageId returns
GeneratedIds == {<<65535, 65534>>}
\* arguments of sendMessage explored over the lifecycle
SendTypes == {1}
SendData == {<<104, 105>>}
SendIds == {NoId}
\* arguments of sendMessage explored for concurrent senders
WireTypes == {1, 255}
WireData == {<<>>, <<104, 105>>}
WireIds == {NoId, <<1, 2>>}

\* a caller invokes sendMessage(type, data, id)
SendMessageFrom(types, datas, ids, clock) ==
    /\ ~ClosePending
    /\ \E type \in types, data \in datas, id \in ids,
          gen \in GeneratedIds, now \in clock :
           sendMessage(type, data, id, gen, now)
    /\ emitted' = <<>>
    /\ UNCHANGED <<tvars_but_wire, failures, scheduledSince, closedByCaller, exhausted,
                   callsAtClose, nDisc, everConnected, notTransport>>

SendMessage == SendMessageFrom(SendTypes, SendData, SendIds, Clock)

WireSend == SendMessageFrom(WireTypes, WireData, WireIds, WireClock)

\* a Buffer of n bytes
Payload(n) == SubSeq([i \in 1..n |-> 7], 1, n)

\* arguments of sendMessage explored for the frame format: every
\* combination of the small values, and the longest payload that fits
CodecInputs ==
    {[type |-> type, id |-> id, data |-> data] :
        type \in {0, 1, 255},
        id \in {NoId, <<0, 0>>, <<0, 1>>, <<1, 0>>, <<65535, 65535>>},
        data \in {<<>>, <<104, 105>>, <<0, 11>>}}
      \cup {[type |-> 2, id |-> <<1, 2>>, data |-> Payload(MaxPayload)]}

\* a payload one byte longer than fits
OversizeInputs ==
    {[type |-> 2, id |-> <<1, 2>>, data |-> Payload(MaxPayload + 1)]}

SendInput(in) ==
    /\ ~ClosePending
    /\ \E gen \in GeneratedIds, now \in CodecClock :
           sendMessage(in.type, in.data, in.id, gen, now)
    /\ emitted' = <<>>
    /\ UNCHANGED <<tvars_but_wire, failures, scheduledSince, closedByCaller, exhausted,
                   callsAtClose, nDisc, everConnected, notTransport>>

CodecSend == \E in \in CodecInputs : SendInput(in)

OversizeSend == \E in \in OversizeInputs : SendInput(in)

\* (mutation) a heartbeat interval fires and the connection is treated as
\* closed
HeartbeatTick_Reconnects ==
    /\ ~ClosePending
    /\ intervals # {}
    /\ \E gen \in GeneratedIds, now \in Clock :
           sendMessage(HeartbeatType, HeartbeatData(now), NoId, gen, now)
    /\ handleConnectionClose
    /\ UNCHANGED <<socket, heartbeatInterval, nsock, sockState, connectWait,
                   intervals, failures, closedByCaller, callsAtClose, nDisc,
                   everConnected, notTransport>>

\* a heartbeat interval fires: sendHeartbeat, a failure is caught and logged
HeartbeatTick ==
    /\ ~ClosePending
    /\ intervals # {}
    /\ \E gen \in GeneratedIds, now \in Clock :
           sendMessage(HeartbeatType, HeartbeatData(now), NoId, gen, now)
    /\ emitted' = <<>>
    /\ UNCHANGED <<tvars_but_wire, failures, scheduledSince, closedByCaller, exhausted,
                   callsAtClose, nDisc, everConnected, notTransport>>

(***************************************************************************)
(* TransportManager: the receiving side.                                   *)
(***************************************************************************)
\* the event handleMessage emits for a type, "" when it only logs a warning
EventOf(type) ==
    CASE type = 1 -> "message:text"
      [] type = 2 -> "message:media"
      [] type = 3 -> "message:group"
      [] type = 4 -> "presence:update"
      [] type = 5 -> "typing:indicator"
      [] type = 6 -> "receipt:read"
      [] type = 7 -> "receipt:delivered"
      [] type = 8 -> "heartbeat:response"
      [] OTHER -> ""

\* handleMessage: what the call is recorded as
handleMessage(message) ==
    [type |-> message.type, id |-> message.id,
     timestamp |-> message.timestamp, data |-> message.data,
     event |-> EventOf(message.type)]

\* (mutation) the new bytes replace the buffer
AppendToBuffer_Replace(buf, data) == data

\* this.buffer = Buffer.concat([this.buffer, data])
AppendToBuffer(buf, data) == buf \o data

\* (mutation) the loop is left at a message whose type has no case
RECURSIVE ProcessBuffer_StopsAtUnknown(_)
ProcessBuffer_StopsAtUnknown(buf) ==
    IF Len(buf) = 0
    THEN [buffer |-> buf, handled |-> <<>>]
    ELSE LET r == parseMessage(buf)
         IN  IF ~r.got
             THEN [buffer |-> r.rest, handled |-> <<>>]
             ELSE IF EventOf(r.msg.type) = ""
                  THEN [buffer |-> r.rest, handled |-> <<handleMessage(r.msg)>>]
                  ELSE LET t == ProcessBuffer_StopsAtUnknown(r.rest)
                       IN  [buffer |-> t.buffer,
                            handled |-> <<handleMessage(r.msg)>> \o t.handled]

\* the while loop of handleIncomingData: parse and handle until the buffer
\* is empty or parseMessage returns null
RECURSIVE ProcessBuffer(_)
ProcessBuffer(buf) ==
    IF Len(buf) = 0
    THEN [buffer |-> buf, handled |-> <<>>]
    ELSE LET r == parseMessage(buf)
         IN  IF ~r.got
             THEN [buffer |-> r.rest, handled |-> <<>>]
             ELSE LET t == ProcessBuffer(r.rest)
                  IN  [buffer |-> t.buffer,
                       handled |-> <<handleMessage(r.msg)>> \o t.handled]

handleIncomingData(buf, data) == ProcessBuffer(AppendToBuffer(buf, data))

\* the end of the next data event: the next cut, or the end of the stream
NextCut == IF \E c \in cuts : c > pos
           THEN CHOOSE c \in cuts : c > pos /\ \A d \in cuts : d > pos => c <= d
           ELSE Len(whole)

\* the socket reports 'data' with the next piece of the stream
DataEvent ==
    /\ pos < Len(whole)
    /\ LET r == handleIncomingData(buffer, SubSeq(whole, pos + 1, NextCut))
       IN  /\ buffer' = r.buffer
           /\ dispatched' = dispatched \o r.handled
    /\ pos' = NextCut
    /\ UNCHANGED <<whole, cuts, notReceive>>

\* 'data' on the socket of an established connection
ConnectedData ==
    /\ isConnected
    /\ socket # 0
    /\ sockState[socket] = "open"
    /\ DataEvent

ReceiveIdle ==
    /\ buffer = <<>>
    /\ dispatched = <<>>
    /\ whole = <<>>
    /\ cuts = {}
    /\ pos = 0

\* frames the peer may send
FrameTypes == {1, 9}
FrameIds == {<<1, 2>>}
FrameTimes == {<<0, 2>>}
FramePayloads == {<<>>, <<104, 105>>, <<0, 11>>}

\* the sets of at most k places in 1..n at which a stream is cut
RECURSIVE CutSets(_, _)
CutSets(n, k) ==
    IF k = 0
    THEN {{}}
    ELSE LET smaller == CutSets(n, k - 1)
         IN  smaller \cup {c \cup {x} : c \in smaller, x \in 1..n}

\* type codes no protocol message has
UnknownTypes == {0, 12, 255}

\* a frame of an unknown type with a text frame behind it
UnknownThenText ==
    {EncodeFrame(type, id, ts, data)
         \o EncodeFrame(1, <<1, 3>>, <<0, 2>>, <<104, 105>>) :
        type \in UnknownTypes, id \in FrameIds, ts \in FrameTimes,
        data \in {<<>>, <<104, 105>>}}

\* frames whose length prefix is 0 or smaller than the 9-byte header
MalformedFrames ==
    {U16BE(n) \o SubSeq(<<1, 0, 0, 0, 1, 0, 0, 0, 2>>, 1, n) :
        n \in 0..(HeaderLen - 1)}

\* text, media and group frames the peer may send
MessageFrames ==
    {EncodeFrame(type, id, ts, data) :
        type \in {1, 2, 3}, id \in FrameIds, ts \in FrameTimes,
        data \in {<<104, 105>>}}

ValidFrames ==
    {EncodeFrame(type, id, ts, data) :
        type \in FrameTypes, id \in FrameIds, ts \in FrameTimes,
        data \in FramePayloads}

(***************************************************************************)
(* CryptoManager: sessions and envelopes.                                  *)
(*                                                                         *)
(* Random values are fresh: the n-th draw of crypto.randomBytes is the     *)
(* number n.  AES and HMAC are symbolic: a ciphertext names its key and    *)
(* its plaintext, a MAC names its key and what it covers, and flip counts  *)
(* the changes made to the bytes since they were produced.                 *)
(***************************************************************************)
Peers == {"p1", "p2"}
Messages == {"hi", "yo"}
Groups == {"g1"}
Recipients == Peers \cup Groups
Tasks == 1..Max(Max(MaxTasks, InboundTasks),
               Max(PeerTasks, Max(EnvelopeTasks, MsgTasks)))

NoSession == [sessionId |-> 0, recipientId |-> "", rootKey |-> 0,
              chainKey |-> 0, messageCount |-> 0]

\* createSession, r being the random material it draws
createSession(recipientId, r) ==
    [sessionId |-> r, recipientId |-> recipientId, rootKey |-> r,
     chainKey |-> r, messageCount |-> 0]

\* getSession: this.sessionStore.get(recipientId)
getSession(recipientId) == sessionStore[recipientId]

\* a Buffer holding key material
BufferOf(k) == [kind |-> "Buffer", bytes |-> k]

\* what JSON.parse(JSON.stringify(v)) returns for a value v: a Buffer comes
\* back as the plain object {type: 'Buffer', data: [...]}
JsonRoundTrip(v) == IF v.kind = "Buffer"
                    THEN [kind |-> "Object", bytes |-> v.bytes]
                    ELSE v

\* what createCipher / createDecipher accept as password
IsKeyLike(v) == v.kind \in {"Buffer", "String"}

Cipher(k, body) == [key |-> k, body |-> body, flip |-> 0]

Hmac(k, over) == [hkey |-> k, over |-> over, flip |-> 0]

\* encryptContent
encryptContent(content, messageKey) ==
    [iv |-> 0, ciphertext |-> Cipher(messageKey.bytes, content)]

\* the envelope encryptMessage builds, as JSON.stringify writes it
EnvelopeJson(recipientId, message, messageType, session, mk, now) ==
    [type |-> messageType, recipientId |-> recipientId, messageId |-> 7,
     timestamp |-> now,
     encryptedContent |-> encryptContent(message, BufferOf(mk)),
     messageKey |-> JsonRoundTrip(BufferOf(mk)),
     sessionId |-> session.sessionId]

\* encryptEnvelope
encryptEnvelope(envelopeJson, session) ==
    LET encrypted == Cipher(session.chainKey, envelopeJson)
    IN  [iv |-> 0, ciphertext |-> encrypted,
         signature |-> Hmac(session.chainKey, encrypted)]

\* encryptMessage once it holds its session
encryptMessageWith(recipientId, message, session, mk, now) ==
    encryptEnvelope(
        EnvelopeJson(recipientId, message, "text", session, mk, now), session)

NoEnvelope == encryptMessageWith("", "", NoSession, 0, 0)

\* an envelope made by somebody holding other keys
ForeignSession == createSession("p1", 99)
ForeignEnvelope == encryptMessageWith("p1", "hi", ForeignSession, 98, 1)

Failure(err, deciphered) ==
    [ok |-> FALSE, err |-> err, content |-> "", deciphered |-> deciphered]

\* decryptContent
decryptContent(encryptedContent, messageKey) ==
    IF ~IsKeyLike(messageKey)
    THEN Failure("ERR_INVALID_ARG_TYPE", TRUE)
    ELSE IF \/ encryptedContent.ciphertext.key # messageKey.bytes
            \/ encryptedContent.ciphertext.flip # 0
         THEN Failure("bad decrypt", TRUE)
         ELSE [ok |-> TRUE, err |-> "",
               content |-> encryptedContent.ciphertext.body,
               deciphered |-> TRUE]

\* (mutation) the MAC is not compared
SignatureValid_Unchecked(encryptedEnvelope, session) == TRUE

\* the MAC test of decryptEnvelope
SignatureValid(encryptedEnvelope, session) ==
    Hmac(session.chainKey, encryptedEnvelope.ciphertext)
        = encryptedEnvelope.signature

\* decryptEnvelope, then decryptContent on what it returns
decryptEnvelopeThenContent(encryptedEnvelope, session) ==
    IF ~SignatureValid(encryptedEnvelope, session)
    THEN Failure("Invalid message signature", FALSE)
    ELSE IF \/ encryptedEnvelope.ciphertext.key # session.chainKey
            \/ encryptedEnvelope.ciphertext.flip # 0
         THEN Failure("bad decrypt", TRUE)
         ELSE LET envelope == encryptedEnvelope.ciphertext.body
              IN  decryptContent(envelope.encryptedContent, envelope.messageKey)

\* (mutation) no test for a missing session
decryptMessageResult_NoTest(session, encryptedEnvelope) ==
    decryptEnvelopeThenContent(encryptedEnvelope, session)

\* decryptMessage, session being what getSession returned
decryptMessageResult(session, encryptedEnvelope) ==
    IF session = NoSession
    THEN Failure("No session found with sender", FALSE)
    ELSE decryptEnvelopeThenContent(encryptedEnvelope, session)

NoHandler == [method |-> "", mediaType |-> ""]

IdleTask == [pc |-> "idle", op |-> "", peer |-> "", msg |-> "",
             session |-> NoSession, env |-> NoEnvelope, handler |-> NoHandler]

\* a caller starts getOrCreateSession or encryptMessage: the store is read
\* and, when it holds no session, createSession runs; the caller then waits
StartCallFor(t, op, peer, msg, handler) ==
    /\ task[t].pc = "idle"
    /\ t <= caps.task
    /\ \A u \in Tasks : u < t => task[u].pc # "idle"
    /\ LET found == getSession(peer)
       IN  IF found # NoSession
           THEN /\ task' = [task EXCEPT ![t] =
                       [pc |-> IF op = "encryptMessage" THEN "haveSession" ELSE "done",
                        op |-> op, peer |-> peer, msg |-> msg,
                        session |-> found, env |-> NoEnvelope,
                        handler |-> handler]]
                /\ UNCHANGED <<rand, created>>
           ELSE /\ task' = [task EXCEPT ![t] =
                       [pc |-> "created", op |-> op, peer |-> peer,
                        msg |-> msg, session |-> createSession(peer, rand + 1),
                        env |-> NoEnvelope, handler |-> handler]]
                /\ rand' = rand + 1
                /\ created' = [created EXCEPT ![peer] = @ + 1]
    /\ UNCHANGED <<sessionStore, lastDecrypt, notCrypto>>

\* a caller outside the message handler
StartCall(t, op, peer, msg) == StartCallFor(t, op, peer, msg, NoHandler)

\* getOrCreateSession resumes after its await: sessionStore.set
StoreSession(t) ==
    /\ task[t].pc = "created"
    /\ sessionStore' = [sessionStore EXCEPT ![task[t].peer] = task[t].session]
    /\ task' = [task EXCEPT ![t].pc =
                   IF task[t].op = "encryptMessage" THEN "haveSession" ELSE "done"]
    /\ UNCHANGED <<rand, created, lastDecrypt, notCrypto>>

\* encryptMessage resumes with its session and builds the envelope
FinishEncrypt(t) ==
    /\ task[t].pc = "haveSession"
    /\ \E now \in Clock :
           task' = [task EXCEPT ![t].pc = "done",
                       ![t].env = encryptMessageWith(task[t].peer, task[t].msg,
                                      task[t].session, rand + 1, now)]
    /\ rand' = rand + 1
    /\ UNCHANGED <<sessionStore, created, lastDecrypt, notCrypto>>

\* the envelopes a decryptMessage call may be handed: the ones produced so
\* far and a foreign one, as they are or with ciphertext or signature changed
\* or taken from another envelope
Produced == {task[t].env : t \in {u \in Tasks : task[u].pc = "done"
                                     /\ task[u].op = "encryptMessage"}}
               \cup {ForeignEnvelope}

Candidates ==
    {[iv |-> c.iv,
      ciphertext |-> [c.ciphertext EXCEPT !.flip = f[1]],
      signature |-> [c.signature EXCEPT !.flip = f[2]]] :
        c \in Produced, f \in {<<0, 0>>, <<1, 0>>, <<0, 1>>}}
    \cup {[iv |-> c.iv, ciphertext |-> c.ciphertext, signature |-> g.signature] :
              c \in Produced, g \in Produced}

\* decryptMessage(senderId, encryptedEnvelope)
DecryptMessage(senderId, encryptedEnvelope) ==
    /\ LET session == getSession(senderId)
           r == decryptMessageResult(session, encryptedEnvelope)
       IN  lastDecrypt' = [called |-> TRUE, senderId |-> senderId,
                           env |-> encryptedEnvelope, session |-> session,
                           ok |-> r.ok, err |-> r.err, content |-> r.content,
                           deciphered |-> r.deciphered]
    /\ UNCHANGED <<sessionStore, task, created, rand, notCrypto>>

\* a decryptMessage call arrives for some sender with some envelope
DecryptCall ==
    \E senderId \in Peers, e \in Candidates : DecryptMessage(senderId, e)

\* a decryptMessage call arrives for some sender with an envelope that
\* encryptMessage produced, for that sender or for another peer
CrossDecryptCall ==
    \E senderId \in Peers, e \in Produced : DecryptMessage(senderId, e)

CryptoInitState ==
    /\ sessionStore = [p \in Recipients |-> NoSession]
    /\ task = [t \in Tasks |-> IdleTask]
    /\ created = [p \in Recipients |-> 0]
    /\ rand = 0
    /\ lastDecrypt = [called |-> FALSE, senderId |-> "", env |-> NoEnvelope,
                      session |-> NoSession, ok |-> FALSE, err |-> "",
                      content |-> "", deciphered |-> FALSE]

(***************************************************************************)
(* WhatsAppClient and MessageHandler: messages sent through the handler.   *)
(***************************************************************************)
\* Buffer.from(str): the UTF-8 bytes of the strings that occur
Utf8(str) ==
    CASE str = "p1" -> <<112, 49>>
      [] str = "p2" -> <<112, 50>>
      [] str = "g1" -> <<103, 49>>
      [] str = "hi" -> <<104, 105>>
      [] str = "yo" -> <<121, 111>>
      [] str = "to" -> <<116, 111>>
      [] str = "text" -> <<116, 101, 120, 116>>
      [] str = "groupId" -> <<103, 114, 111, 117, 112, 73, 100>>
      [] str = "media" -> <<109, 101, 100, 105, 97>>
      [] str = "type" -> <<116, 121, 112, 101>>
      [] str = "image" -> <<105, 109, 97, 103, 101>>
      [] str = "data" -> <<100, 97, 116, 97>>
      [] str = "mimeType" -> <<109, 105, 109, 101, 84, 121, 112, 101>>
      [] str = "image/jpeg" -> <<105, 109, 97, 103, 101, 47, 106, 112, 101, 103>>
      [] str = "size" -> <<115, 105, 122, 101>>
      [] str = "messageId" -> <<109, 101, 115, 115, 97, 103, 101, 73, 100>>
      [] str = "from" -> <<102, 114, 111, 109>>
      [] str = "online" -> <<111, 110, 108, 105, 110, 101>>
      [] str = "lastSeen" -> <<108, 97, 115, 116, 83, 101, 101, 110>>
      [] str = "thumbnail" -> <<116, 104, 117, 109, 98, 110, 97, 105, 108>>

\* JSON.stringify of a string, of a member, of null
JsonString(str) == <<34>> \o Utf8(str) \o <<34>>
JsonMember(key, value) == JsonString(key) \o <<58>> \o value
JsonNull == <<110, 117, 108, 108>>

\* processMediaData: the image case, and the default case that throws
SupportedMedia == {"image"}
processImage(imageData) ==
    [type |-> "image", data |-> imageData, mimeType |-> "image/jpeg",
     size |-> Len(Utf8(imageData)), thumbnail |-> "null"]

\* JSON.stringify of what processImage returns
ProcessedImageJson(m) ==
    <<123>> \o JsonMember("type", JsonString(m.type))
        \o <<44>> \o JsonMember("data", JsonString(m.data))
        \o <<44>> \o JsonMember("mimeType", JsonString(m.mimeType))
        \o <<44>> \o JsonMember("size", Digits(m.size))
        \o <<44>> \o JsonMember("thumbnail", JsonNull) \o <<125>>

\* TransportManager.sendTextMessage: the type and the data it passes on
sendTextMessage(to, text) ==
    [type |-> 1, object |-> [to |-> to, text |-> text],
     bytes |-> <<123>> \o JsonMember("to", JsonString(to))
                  \o <<44>> \o JsonMember("text", JsonString(text)) \o <<125>>]

\* TransportManager.sendMediaMessage
sendMediaMessage(to, mediaData, mediaType) ==
    [type |-> 2, object |-> [to |-> to, media |-> mediaData, type |-> mediaType],
     bytes |-> <<123>> \o JsonMember("to", JsonString(to))
                  \o <<44>> \o JsonMember("media", ProcessedImageJson(mediaData))
                  \o <<44>> \o JsonMember("type", JsonString(mediaType))
                  \o <<125>>]

\* TransportManager.sendGroupMessage
sendGroupMessage(groupId, text) ==
    [type |-> 3, object |-> [groupId |-> groupId, text |-> text],
     bytes |-> <<123>> \o JsonMember("groupId", JsonString(groupId))
                  \o <<44>> \o JsonMember("text", JsonString(text)) \o <<125>>]

\* the transport call a handler method makes once encryptMessage returned
TransportCall(handler, to, content) ==
    CASE handler.method = "sendTextMessage" -> sendTextMessage(to, content)
      [] handler.method = "sendMediaMessage" ->
             sendMediaMessage(to, processImage(content), handler.mediaType)
      [] handler.method = "sendGroupMessage" -> sendGroupMessage(to, content)

\* authManager emits 'auth:success'
AuthSuccess ==
    /\ isAuthenticated' = TRUE
    /\ UNCHANGED <<handlerLog, tvars, sendLog, lastSend, failures,
                   scheduledSince, closedByCaller, exhausted, callsAtClose, nDisc,
                   everConnected, caps, cvars, rvars, ivars, uvars>>

HandlerEntry(handler, to, content, ok, err, envelope, handed, frame) ==
    [method |-> handler.method, to |-> to, content |-> content, ok |-> ok,
     err |-> err, envelope |-> envelope, handed |-> handed, frame |-> frame]

\* a handler method is called: the authentication test, processMediaData,
\* then encryptMessage up to its first wait
HandlerCall(t, handler, to, content) ==
    /\ Len(handlerLog) + Cardinality({u \in Tasks : task[u].pc # "idle"})
           < caps.msg
    /\ IF ~isAuthenticated
       THEN /\ handlerLog' = Append(handlerLog,
                   HandlerEntry(handler, to, content, FALSE,
                       "Client not authenticated", NoEnvelope, NoEnvelope, 0))
            /\ UNCHANGED <<cvars, isAuthenticated, notCrypto_but_handler>>
       ELSE IF /\ handler.method = "sendMediaMessage"
               /\ handler.mediaType \notin SupportedMedia
            THEN /\ handlerLog' = Append(handlerLog,
                        HandlerEntry(handler, to, content, FALSE,
                            "Unsupported media type", NoEnvelope, NoEnvelope, 0))
                 /\ UNCHANGED <<cvars, isAuthenticated, notCrypto_but_handler>>
            ELSE StartCallFor(t, "encryptMessage", to, content, handler)

\* the handler resumes with the envelope and calls the transport
HandlerSend(t) ==
    /\ ~ClosePending
    /\ task[t].pc = "done"
    /\ task[t].handler.method # ""
    /\ LET c == TransportCall(task[t].handler, task[t].peer, task[t].msg)
       IN  \E gen \in GeneratedIds, now \in Clock :
               LET r == sendMessageResult(c.type, c.bytes, NoId, gen, now)
               IN  /\ sendMessage(c.type, c.bytes, NoId, gen, now)
                   /\ handlerLog' = Append(handlerLog,
                          HandlerEntry(task[t].handler, task[t].peer,
                              task[t].msg, r.ok, r.err, task[t].env, c.object,
                              IF r.ok THEN Len(sendLog) + 1 ELSE 0))
    /\ task' = [task EXCEPT ![t] = IdleTask]
    /\ emitted' = <<>>
    /\ UNCHANGED <<tvars_but_wire, failures, scheduledSince, closedByCaller, exhausted,
                   callsAtClose, nDisc, everConnected, caps, sessionStore,
                   created, rand, lastDecrypt, rvars, ivars, uvars,
                   isAuthenticated>>

\* the calls of the handler explored
HandlerCalls ==
    {[method |-> "sendTextMessage", mediaType |-> ""],
     [method |-> "sendGroupMessage", mediaType |-> ""],
     [method |-> "sendMediaMessage", mediaType |-> "image"],
     [method |-> "sendMediaMessage", mediaType |-> "sticker"]}

HandlerCallAny ==
    \E t \in Tasks, handler \in HandlerCalls, content \in Messages :
        \E to \in (IF handler.method = "sendGroupMessage" THEN Groups ELSE {"p1"}) :
            HandlerCall(t, handler, to, content)

(***************************************************************************)
(* AuthManager and WhatsAppClient.start.                                   *)
(***************************************************************************)
\* the 24 hours of hasValidSession, in milliseconds
DayMs == 24 * 60 * 60 * 1000

\* the values Date.now() takes
Times == {0, 1500, DayMs - 1, DayMs + 1499, DayMs + 1500, 2 * DayMs}

NoSessionData == [present |-> FALSE, timestamp |-> 0]
NoAuthCall == [op |-> "none", viaStart |-> FALSE]

\* hasValidSession
hasValidSession(sd, now) == sd.present /\ now - sd.timestamp < DayMs

\* the branch authenticate() takes
AuthenticatePath ==
    IF phoneNumber = "" THEN "failed"
    ELSE IF hasValidSession(sessionData, dateNow) THEN "restored"
    ELSE "sms"

\* authenticate() up to its return, or up to the await of the registration
\* request in requestSMSCode; the client's 'auth:success' listener sets
\* isAuthenticated
authenticate(viaStart) ==
    /\ authCall.op = "none"
    /\ lastAuth.n < caps.auth
    /\ lastAuth' = [n |-> lastAuth.n + 1, path |-> AuthenticatePath,
                    events |-> CASE AuthenticatePath = "restored" ->
                                        <<"auth:success">>
                                 [] AuthenticatePath = "failed" ->
                                        <<"auth:failed">>
                                 [] OTHER -> <<>>]
    /\ authState' = CASE AuthenticatePath = "restored" -> "authenticated"
                      [] AuthenticatePath = "sms" -> "requesting_code"
                      [] OTHER -> authState
    /\ isAuthenticated' = (isAuthenticated \/ AuthenticatePath = "restored")
    /\ smsRequests' = IF AuthenticatePath = "sms" THEN smsRequests + 1
                      ELSE smsRequests
    /\ authCall' = IF AuthenticatePath = "sms"
                   THEN [op |-> "sms", viaStart |-> viaStart]
                   ELSE NoAuthCall
    /\ UNCHANGED <<sessionData, phoneNumber, dateNow, verifies>>

\* connect() has returned to start(), which goes on before anything else runs
StartPending ==
    /\ start.pc = "connecting"
    /\ connectWait[start.sock] = "none"
    /\ sockState[start.sock] = "open"

\* the caller invokes authManager.authenticate()
AuthenticateCall ==
    /\ ~StartPending
    /\ authenticate(FALSE)
    /\ UNCHANGED <<start, readyLog, handlerLog, gvars, xvars, tvars, notClient>>

\* start() up to the await of transportManager.connect()
ClientStart ==
    /\ ~ClosePending
    /\ start.pc = "idle"
    /\ connectBody
    /\ closedByCaller' = FALSE
    /\ exhausted' = FALSE
    /\ emitted' = <<>>
    /\ start' = [pc |-> "connecting", sock |-> nsock + 1]
    /\ UNCHANGED <<isConnected, reconnectAttempts, heartbeatInterval, timers,
                   intervals, wire, sendLog, lastSend, failures,
                   scheduledSince, callsAtClose, nDisc, everConnected, caps,
                   cvars, rvars, mvars, ivars, gvars, xvars, authState, sessionData,
                   phoneNumber, dateNow, authCall, lastAuth, smsRequests,
                   verifies, readyLog>>

\* start() after connect() has returned: authenticate(), and when that
\* returns at once, multiDeviceSync.initialize() and 'ready'
StartConnected ==
    /\ StartPending
    /\ authenticate(TRUE)
    /\ start' = [start EXCEPT !.pc =
                    CASE AuthenticatePath = "restored" -> "done"
                      [] AuthenticatePath = "sms" -> "authenticating"
                      [] OTHER -> "failed"]
    /\ readyLog' = IF AuthenticatePath = "restored"
                   THEN Append(readyLog, TRUE)
                   ELSE readyLog
    /\ UNCHANGED <<handlerLog, gvars, xvars, tvars, notClient>>

\* the registration request returns 'sent': requestSMSCode and authenticate()
\* return; a start() that called them goes on to 'ready'
SmsSent ==
    /\ ~StartPending
    /\ authCall.op = "sms"
    /\ authState' = "code_sent"
    /\ authCall' = NoAuthCall
    /\ IF authCall.viaStart
       THEN /\ start' = [start EXCEPT !.pc = "done"]
            /\ readyLog' = Append(readyLog, isAuthenticated)
       ELSE UNCHANGED <<start, readyLog>>
    /\ UNCHANGED <<sessionData, phoneNumber, dateNow, lastAuth, smsRequests,
                   verifies, mvars, gvars, xvars, tvars, notClient>>

\* verifySMSCode(code) up to the await of the verification request
VerifyCall ==
    /\ ~StartPending
    /\ authCall.op = "none"
    /\ phoneNumber # ""
    /\ verifies < caps.verify
    /\ verifies' = verifies + 1
    /\ authState' = "authenticating"
    /\ authCall' = [op |-> "verify", viaStart |-> FALSE]
    /\ UNCHANGED <<sessionData, phoneNumber, dateNow, lastAuth, smsRequests,
                   start, readyLog, mvars, gvars, xvars, tvars, sendLog, lastSend,
                   failures, scheduledSince, closedByCaller, exhausted,
                   callsAtClose, nDisc, everConnected, caps, cvars, rvars,
                   ivars>>

\* the verification request returns 'success': the session is stored and
\* 'auth:success' is emitted
VerifyDone ==
    /\ ~StartPending
    /\ authCall.op = "verify"
    /\ sessionData' = [present |-> TRUE, timestamp |-> dateNow]
    /\ authState' = "authenticated"
    /\ isAuthenticated' = TRUE
    /\ authCall' = NoAuthCall
    /\ UNCHANGED <<phoneNumber, dateNow, lastAuth, smsRequests, verifies, start,
                   readyLog, handlerLog, gvars, xvars, tvars, notClient>>

\* verifySMSCode(code) of a client without phone number: normalizePhoneNumber
\* throws, the catch block sets the state and emits 'auth:failed'
VerifyFailed ==
    /\ ~StartPending
    /\ authCall.op = "none"
    /\ phoneNumber = ""
    /\ verifies < caps.verify
    /\ verifies' = verifies + 1
    /\ authState' = "disconnected"
    /\ UNCHANGED <<sessionData, phoneNumber, dateNow, authCall, lastAuth,
                   smsRequests, start, readyLog, mvars, gvars, xvars, tvars,
                   notClient>>

\* authManager.logout()
Logout ==
    /\ ~StartPending
    /\ sessionData' = NoSessionData
    /\ authState' = "disconnected"
    /\ UNCHANGED <<phoneNumber, dateNow, authCall, lastAuth, smsRequests,
                   verifies, start, readyLog, mvars, gvars, xvars, tvars,
                   notClient>>

\* time passes
Tick ==
    /\ ~StartPending
    /\ \E t \in Times : t > dateNow /\ dateNow' = t
    /\ UNCHANGED <<authState, sessionData, phoneNumber, authCall, lastAuth,
                   smsRequests, verifies, start, readyLog, mvars, gvars, xvars, tvars,
                   notClient>>

(***************************************************************************)
(* GroupManager.                                                           *)
(***************************************************************************)
GroupIds == {"G1", "G2"}
Contacts == {"me", "a", "b"}
NoGroup == [name |-> "", owner |-> "", participants |-> <<>>,
            admins |-> <<>>, onlyAdminsCanAddParticipants |-> FALSE]

\* the participant arrays a caller passes
ParticipantLists ==
    {<<>>} \cup {<<p>> : p \in Contacts}
           \cup {<<p, q>> : p \in Contacts, q \in Contacts}

Includes(list, p) == \E i \in DOMAIN list : list[i] = p

\* participants.filter(p => !group.participants.includes(p))
NewParticipants(old, listed) ==
    SelectSeq(listed, LAMBDA p : ~Includes(old, p))

\* the recipients the notify loop hands to sendTextMessage: it stops at the
\* first call that throws, as every call does without a connection
Notified(participants) ==
    LET others == SelectSeq(participants, LAMBDA p : p # phoneNumber)
    IN  IF isConnected \/ others = <<>> THEN others ELSE <<Head(others)>>

GroupFailure(op, err) ==
    [op |-> op, ok |-> FALSE, err |-> err, id |-> "", before |-> <<>>,
     listed |-> <<>>, notified |-> <<>>]

\* createGroup(name, participants)
createGroup(groupId, name, participants) ==
    IF ~isAuthenticated
    THEN /\ lastGroup' = GroupFailure("createGroup", "Client not authenticated")
         /\ UNCHANGED <<groups, groupParticipants>>
    ELSE LET group == [name |-> name, owner |-> phoneNumber,
                       participants |-> <<phoneNumber>> \o participants,
                       admins |-> <<phoneNumber>>,
                       onlyAdminsCanAddParticipants |-> FALSE]
         IN  /\ groups' = [groups EXCEPT ![groupId] = group]
             /\ groupParticipants' =
                    [groupParticipants EXCEPT ![groupId] = group.participants]
             /\ lastGroup' = [op |-> "createGroup", ok |-> TRUE, err |-> "",
                              id |-> groupId, before |-> <<>>,
                              listed |-> participants,
                              notified |-> Notified(group.participants)]

\* addParticipants(groupId, participants)
addParticipants(groupId, participants) ==
    IF ~isAuthenticated
    THEN /\ lastGroup' =
                GroupFailure("addParticipants", "Client not authenticated")
         /\ UNCHANGED <<groups, groupParticipants>>
    ELSE IF groups[groupId] = NoGroup
    THEN /\ lastGroup' = GroupFailure("addParticipants", "Group not found")
         /\ UNCHANGED <<groups, groupParticipants>>
    ELSE IF /\ ~Includes(groups[groupId].admins, phoneNumber)
            /\ groups[groupId].onlyAdminsCanAddParticipants
    THEN /\ lastGroup' =
                GroupFailure("addParticipants", "Only admins can add participants")
         /\ UNCHANGED <<groups, groupParticipants>>
    ELSE LET old == groups[groupId].participants
             all == old \o NewParticipants(old, participants)
         IN  /\ groups' = [groups EXCEPT ![groupId].participants = all]
             /\ groupParticipants' =
                    [groupParticipants EXCEPT ![groupId] = all]
             /\ lastGroup' = [op |-> "addParticipants", ok |-> TRUE,
                              err |-> "", id |-> groupId, before |-> old,
                              listed |-> participants,
                              notified |-> Notified(all)]

GroupResult(op, groupId, group, listed) ==
    [op |-> op, ok |-> TRUE, err |-> "", id |-> groupId,
     before |-> groups[groupId].participants, listed |-> listed,
     notified |-> Notified(group.participants)]

GroupRefused(op, err) ==
    /\ lastGroup' = GroupFailure(op, err)
    /\ UNCHANGED <<groups, groupParticipants>>

\* list.filter(x => !removed.includes(x))
Without(list, removed) == SelectSeq(list, LAMBDA x : ~Includes(removed, x))

\* removeParticipants(groupId, participants)
removeParticipants(groupId, participants) ==
    IF ~isAuthenticated
    THEN GroupRefused("removeParticipants", "Client not authenticated")
    ELSE IF groups[groupId] = NoGroup
    THEN GroupRefused("removeParticipants", "Group not found")
    ELSE IF ~Includes(groups[groupId].admins, phoneNumber)
    THEN GroupRefused("removeParticipants", "Only admins can remove participants")
    ELSE LET group == [groups[groupId] EXCEPT
                          !.participants = Without(@, participants),
                          !.admins = Without(@, participants)]
         IN  /\ groups' = [groups EXCEPT ![groupId] = group]
             /\ groupParticipants' =
                    [groupParticipants EXCEPT ![groupId] = group.participants]
             /\ lastGroup' = GroupResult("removeParticipants", groupId, group,
                                         participants)

\* promoteToAdmin(groupId, participant)
promoteToAdmin(groupId, participant) ==
    IF ~isAuthenticated
    THEN GroupRefused("promoteToAdmin", "Client not authenticated")
    ELSE IF groups[groupId] = NoGroup
    THEN GroupRefused("promoteToAdmin", "Group not found")
    ELSE IF ~Includes(groups[groupId].admins, phoneNumber)
    THEN GroupRefused("promoteToAdmin", "Only admins can promote participants")
    ELSE IF ~Includes(groups[groupId].participants, participant)
    THEN GroupRefused("promoteToAdmin", "Participant not in group")
    ELSE LET group == [groups[groupId] EXCEPT
                          !.admins = IF Includes(@, participant) THEN @
                                     ELSE Append(@, participant)]
         IN  /\ groups' = [groups EXCEPT ![groupId] = group]
             /\ lastGroup' = GroupResult("promoteToAdmin", groupId, group,
                                         <<participant>>)
             /\ UNCHANGED groupParticipants

\* demoteFromAdmin(groupId, participant)
demoteFromAdmin(groupId, participant) ==
    IF ~isAuthenticated
    THEN GroupRefused("demoteFromAdmin", "Client not authenticated")
    ELSE IF groups[groupId] = NoGroup
    THEN GroupRefused("demoteFromAdmin", "Group not found")
    ELSE IF ~Includes(groups[groupId].admins, phoneNumber)
    THEN GroupRefused("demoteFromAdmin", "Only admins can demote participants")
    ELSE IF ~Includes(groups[groupId].admins, participant)
    THEN GroupRefused("demoteFromAdmin", "Participant is not an admin")
    ELSE IF groups[groupId].owner = participant
    THEN GroupRefused("demoteFromAdmin", "Cannot demote group owner")
    ELSE LET group == [groups[groupId] EXCEPT
                          !.admins = Without(@, <<participant>>)]
         IN  /\ groups' = [groups EXCEPT ![groupId] = group]
             /\ lastGroup' = GroupResult("demoteFromAdmin", groupId, group,
                                         <<participant>>)
             /\ UNCHANGED groupParticipants

\* leaveGroup(groupId)
leaveGroup(groupId) ==
    IF ~isAuthenticated
    THEN GroupRefused("leaveGroup", "Client not authenticated")
    ELSE IF groups[groupId] = NoGroup
    THEN GroupRefused("leaveGroup", "Group not found")
    ELSE LET left == [groups[groupId] EXCEPT
                         !.participants = Without(@, <<phoneNumber>>),
                         !.admins = Without(@, <<phoneNumber>>)]
             group ==
                 IF left.owner # phoneNumber THEN left
                 ELSE IF left.admins # <<>>
                 THEN [left EXCEPT !.owner = left.admins[1]]
                 ELSE IF left.participants # <<>>
                 THEN [left EXCEPT !.owner = left.participants[1],
                                   !.admins = <<left.participants[1]>>]
                 ELSE NoGroup
         IN  /\ groups' = [groups EXCEPT ![groupId] = group]
             /\ groupParticipants' =
                    [groupParticipants EXCEPT ![groupId] = group.participants]
             /\ lastGroup' =
                    IF group = NoGroup
                    THEN [op |-> "leaveGroup", ok |-> TRUE, err |-> "",
                          id |-> groupId,
                          before |-> groups[groupId].participants,
                          listed |-> <<>>, notified |-> <<>>]
                    ELSE GroupResult("leaveGroup", groupId, group, <<>>)

GroupUnchanged ==
    UNCHANGED <<avars, mvars, tvars, sendLog, lastSend, failures,
                scheduledSince, closedByCaller, exhausted, callsAtClose, nDisc,
                everConnected, caps, cvars, rvars, ivars, xvars>>

\* client.createGroup(name, participants)
CreateGroup ==
    /\ groupCalls < caps.group
    /\ groupCalls' = groupCalls + 1
    /\ \E groupId \in GroupIds, participants \in ParticipantLists :
           createGroup(groupId, "n", participants)
    /\ GroupUnchanged

\* client.addGroupParticipants(groupId, participants)
AddGroupParticipants ==
    /\ groupCalls < caps.group
    /\ groupCalls' = groupCalls + 1
    /\ \E groupId \in GroupIds, participants \in ParticipantLists :
           addParticipants(groupId, participants)
    /\ GroupUnchanged

\* client.removeGroupParticipants(groupId, participants)
RemoveGroupParticipants ==
    /\ groupCalls < caps.group
    /\ groupCalls' = groupCalls + 1
    /\ \E groupId \in GroupIds, participants \in ParticipantLists :
           removeParticipants(groupId, participants)
    /\ GroupUnchanged

\* groupManager.promoteToAdmin(groupId, participant)
PromoteToAdmin ==
    /\ groupCalls < caps.group
    /\ groupCalls' = groupCalls + 1
    /\ \E groupId \in GroupIds, participant \in Contacts :
           promoteToAdmin(groupId, participant)
    /\ GroupUnchanged

\* groupManager.demoteFromAdmin(groupId, participant)
DemoteFromAdmin ==
    /\ groupCalls < caps.group
    /\ groupCalls' = groupCalls + 1
    /\ \E groupId \in GroupIds, participant \in Contacts :
           demoteFromAdmin(groupId, participant)
    /\ GroupUnchanged

\* groupManager.leaveGroup(groupId)
LeaveGroup ==
    /\ groupCalls < caps.group
    /\ groupCalls' = groupCalls + 1
    /\ \E groupId \in GroupIds : leaveGroup(groupId)
    /\ GroupUnchanged

(***************************************************************************)
(* Logger.                                                                 *)
(***************************************************************************)
LogLevels == {"error", "warn", "info", "debug"}

\* this.levels[level]: -1 stands for undefined
LevelRank(level) ==
    CASE level = "error" -> 0
      [] level = "warn" -> 1
      [] level = "info" -> 2
      [] level = "debug" -> 3
      [] OTHER -> -1

\* options.x || fallback
OptionOr(option, fallback) == IF option = "" THEN fallback ELSE option

\* new Logger(module, level)
NewLogger(module, level) == [module |-> module, level |-> level]

\* the test of log(): a comparison with undefined is false
Suppressed(level, current) ==
    /\ LevelRank(level) # -1
    /\ LevelRank(current) # -1
    /\ LevelRank(level) > LevelRank(current)

\* client.logger.log(level, message)
LogCall(level) ==
    /\ lastLog.n < MaxLogs
    /\ lastLog' = [n |-> lastLog.n + 1, level |-> level,
                   output |-> ~Suppressed(level, logger.level)]
    /\ logged' = IF Suppressed(level, logger.level) THEN logged
                 ELSE Append(logged, level)
    /\ UNCHANGED <<logLevel, logger, svars, kvars, notExtra>>

\* no handleIncomingMessage call has been made
IdleIncoming == [pc |-> "idle", from |-> "", id |-> 0, err |-> "",
                 content |-> "", frame |-> 0]

ClientInitState ==
    /\ isAuthenticated = FALSE
    /\ handlerLog = <<>>
    /\ incoming = IdleIncoming
    /\ receivedMessages = {}
    /\ clientMessages = <<>>
    /\ authState = "disconnected"
    /\ sessionData = NoSessionData
    /\ dateNow = 0
    /\ authCall = NoAuthCall
    /\ lastAuth = [n |-> 0, path |-> "none", events |-> <<>>]
    /\ smsRequests = 0
    /\ verifies = 0
    /\ start = [pc |-> "idle", sock |-> 0]
    /\ readyLog = <<>>
    /\ groups = [g \in GroupIds |-> NoGroup]
    /\ groupParticipants = [g \in GroupIds |-> <<>>]
    /\ lastGroup = GroupFailure("", "")
    /\ groupCalls = 0

\* the WhatsAppClient constructor: this.logger = new Logger(options.logLevel),
\* the level parameter of Logger keeps its default
LoggerInitState ==
    /\ logger = NewLogger(OptionOr(logLevel, "info"), "info")
    /\ lastLog = [n |-> 0, level |-> "", output |-> FALSE]
    /\ logged = <<>>

(***************************************************************************)
(* MultiDeviceSync: performSync, and the messages it reports.              *)
(***************************************************************************)
\* Date.now() when the client is built; dateNow counts from there
Epoch == 1000
Now == Epoch + dateNow

SyncTasks == 1..MaxSyncs
MessageIds == 1..MaxSyncMsgs

IdleSync == [pc |-> "idle", via |-> "", changes |-> {}]

\* the MultiDeviceSync constructor and the MessageHandler constructor
SyncInitState ==
    /\ syncState = [lastSyncTimestamp |-> 0, syncInProgress |-> FALSE]
    /\ syncTask = [t \in SyncTasks |-> IdleSync]
    /\ sentMessages = {}
    /\ pendingMessages = {}
    /\ syncReports = <<>>

\* getLocalChanges: the stored messages newer than the last sync
getLocalChanges ==
    {m.id : m \in {x \in sentMessages :
                      x.timestamp > syncState.lastSyncTimestamp}}

SyncUnchanged ==
    UNCHANGED <<logLevel, logger, lastLog, logged, kvars, notExtra>>

\* performSync up to its first wait: the test of syncInProgress, whose
\* return runs the finally block, or the flag set and getLocalChanges
performSync(t, via) ==
    /\ syncTask[t].pc = "idle"
    /\ \A u \in SyncTasks : u < t => syncTask[u].pc # "idle"
    /\ IF syncState.syncInProgress
       THEN /\ syncState' = [syncState EXCEPT !.syncInProgress = FALSE]
            /\ syncTask' = [syncTask EXCEPT ![t] =
                   [pc |-> "skipped", via |-> via, changes |-> {}]]
       ELSE /\ syncState' = [syncState EXCEPT !.syncInProgress = TRUE]
            /\ syncTask' = [syncTask EXCEPT ![t] =
                   [pc |-> "running", via |-> via, changes |-> getLocalChanges]]
    /\ UNCHANGED <<sentMessages, pendingMessages, syncReports>>

\* the callback of startPeriodicSync's interval
PeriodicSync ==
    /\ \E t \in SyncTasks : performSync(t, "timer")
    /\ SyncUnchanged

\* forceSync
ForceSync ==
    /\ \E t \in SyncTasks : performSync(t, "force")
    /\ SyncUnchanged

\* performSync resumes after its waits: the timestamp, 'sync:completed',
\* and the finally block
SyncFinish(t) ==
    /\ syncTask[t].pc = "running"
    /\ syncState' = [lastSyncTimestamp |-> Now, syncInProgress |-> FALSE]
    /\ syncReports' = Append(syncReports, syncTask[t].changes)
    /\ syncTask' = [syncTask EXCEPT ![t].pc = "completed"]
    /\ UNCHANGED <<sentMessages, pendingMessages>>
    /\ SyncUnchanged

\* sendTextMessage up to its first wait: the test of isAuthenticated and the
\* message object with timestamp Date.now()
buildMessage ==
    /\ \E id \in MessageIds :
           /\ \A m \in sentMessages \cup pendingMessages : m.id # id
           /\ \A j \in MessageIds : j < id =>
                  \E m \in sentMessages \cup pendingMessages : m.id = j
           /\ pendingMessages' =
                  pendingMessages \cup {[id |-> id, timestamp |-> Now]}
    /\ UNCHANGED <<syncState, syncTask, sentMessages, syncReports>>

BuildMessage ==
    /\ isAuthenticated
    /\ buildMessage
    /\ SyncUnchanged

\* sendTextMessage resumes after encryptMessage and the transport call:
\* this.sentMessages.set(message.id, message)
StoreMessage ==
    /\ \E m \in pendingMessages :
           /\ sentMessages' = sentMessages \cup {m}
           /\ pendingMessages' = pendingMessages \ {m}
    /\ UNCHANGED <<syncState, syncTask, syncReports>>
    /\ SyncUnchanged

(***************************************************************************)
(* WhatsAppClient: the operations that require authentication.             *)
(***************************************************************************)
ClientOps ==
    {"sendMessage", "sendMedia", "createGroup", "getGroupInfo",
     "addGroupParticipants", "removeGroupParticipants", "getContactInfo",
     "setOnlineStatus", "markAsRead", "forceSync", "addDevice",
     "removeDevice"}

DeviceIds == {"p1", "p2"}

\* the arguments explored: a group, a participant array, a device, a flag
ClientArgs ==
    [groupId : {"G1"}, participants : {<<>>, <<"a">>}, device : DeviceIds,
     isOnline : BOOLEAN]

ClientCallIdle ==
    /\ lastClient = [n |-> 0, op |-> "", ok |-> FALSE, err |-> ""]
    /\ deviceList = <<>>

\* (mutation) no operation tests isAuthenticated
RequiresAuth_None(op) == FALSE

\* if (!this.isAuthenticated) throw new Error('Client not authenticated'):
\* the operations that start with it
RequiresAuth(op) == op \in ClientOps

ClientResult(op, ok, err) ==
    [n |-> lastClient.n + 1, op |-> op, ok |-> ok, err |-> err]

\* Buffer.from(JSON.stringify({online: isOnline, lastSeen: Date.now()}))
PresenceData(isOnline, now) ==
    <<123>> \o JsonMember("online", IF isOnline THEN <<116, 114, 117, 101>>
                                    ELSE <<102, 97, 108, 115, 101>>)
        \o <<44>> \o JsonMember("lastSeen", Digits(now)) \o <<125>>

\* Buffer.from(JSON.stringify({messageId, from}))
ReadReceiptData(messageId, from) ==
    <<123>> \o JsonMember("messageId", Digits(messageId))
        \o <<44>> \o JsonMember("from", JsonString(from)) \o <<125>>

\* the component's method the operation hands the call to, up to its first
\* wait: its own test of isAuthenticated where it has one, and what it
\* changes before it waits
Delegate(op, a) ==
    CASE op = "sendMessage" ->
             IF ~isAuthenticated
             THEN /\ lastClient' = ClientResult(op, FALSE,
                                                "Client not authenticated")
                  /\ UNCHANGED <<svars, gvars, deviceList, wire, sendLog,
                                 lastSend>>
             ELSE /\ buildMessage
                  /\ lastClient' = ClientResult(op, TRUE, "")
                  /\ UNCHANGED <<gvars, deviceList, wire, sendLog, lastSend>>
      [] op = "sendMedia" ->
             /\ lastClient' = IF isAuthenticated
                              THEN ClientResult(op, TRUE, "")
                              ELSE ClientResult(op, FALSE,
                                                "Client not authenticated")
             /\ UNCHANGED <<svars, gvars, deviceList, wire, sendLog, lastSend>>
      [] op = "createGroup" ->
             /\ createGroup(a.groupId, "n", a.participants)
             /\ lastClient' = ClientResult(op, lastGroup'.ok, lastGroup'.err)
             /\ UNCHANGED <<svars, groupCalls, deviceList, wire, sendLog,
                            lastSend>>
      [] op = "addGroupParticipants" ->
             /\ addParticipants(a.groupId, a.participants)
             /\ lastClient' = ClientResult(op, lastGroup'.ok, lastGroup'.err)
             /\ UNCHANGED <<svars, groupCalls, deviceList, wire, sendLog,
                            lastSend>>
      [] op = "removeGroupParticipants" ->
             /\ removeParticipants(a.groupId, a.participants)
             /\ lastClient' = ClientResult(op, lastGroup'.ok, lastGroup'.err)
             /\ UNCHANGED <<svars, groupCalls, deviceList, wire, sendLog,
                            lastSend>>
      [] op = "getGroupInfo" ->
             /\ lastClient' =
                    IF ~isAuthenticated
                    THEN ClientResult(op, FALSE, "Client not authenticated")
                    ELSE IF groups[a.groupId] = NoGroup
                    THEN ClientResult(op, FALSE, "Group not found")
                    ELSE ClientResult(op, TRUE, "")
             /\ UNCHANGED <<svars, gvars, deviceList, wire, sendLog, lastSend>>
      [] op = "getContactInfo" ->
             /\ lastClient' = ClientResult(op, TRUE, "")
             /\ UNCHANGED <<svars, gvars, deviceList, wire, sendLog, lastSend>>
      [] op = "setOnlineStatus" ->
             /\ \E gen \in GeneratedIds :
                    sendMessage(4, PresenceData(a.isOnline, Now), NoId, gen,
                                Now)
             /\ lastClient' = ClientResult(op, lastSend'.ok, lastSend'.err)
             /\ UNCHANGED <<svars, gvars, deviceList>>
      [] op = "markAsRead" ->
             /\ \E gen \in GeneratedIds :
                    sendMessage(6, ReadReceiptData(1, "p1"), NoId, gen, Now)
             /\ lastClient' = ClientResult(op, lastSend'.ok, lastSend'.err)
             /\ UNCHANGED <<svars, gvars, deviceList>>
      [] op = "forceSync" ->
             /\ \E t \in SyncTasks : performSync(t, "force")
             /\ lastClient' = ClientResult(op, TRUE, "")
             /\ UNCHANGED <<gvars, deviceList, wire, sendLog, lastSend>>
      [] op = "addDevice" ->
             /\ deviceList' = Append(deviceList, a.device)
             /\ lastClient' = ClientResult(op, TRUE, "")
             /\ UNCHANGED <<svars, gvars, wire, sendLog, lastSend>>
      [] op = "removeDevice" ->
             /\ deviceList' = SelectSeq(deviceList, LAMBDA d : d # a.device)
             /\ lastClient' = ClientResult(op, TRUE, "")
             /\ UNCHANGED <<svars, gvars, wire, sendLog, lastSend>>

\* a caller invokes one of the client's operations
ClientCall ==
    /\ ~ClosePending
    /\ lastClient.n < MaxClientCalls
    /\ \E op \in ClientOps, a \in ClientArgs :
           IF RequiresAuth(op) /\ ~isAuthenticated
           THEN /\ lastClient' = ClientResult(op, FALSE,
                                              "Client not authenticated")
                /\ UNCHANGED <<svars, gvars, deviceList, wire, sendLog,
                               lastSend>>
           ELSE Delegate(op, a)
    /\ emitted' = <<>>
    /\ UNCHANGED <<tvars_but_wire, failures, scheduledSince, closedByCaller,
                   exhausted, callsAtClose, nDisc, everConnected, caps, cvars,
                   rvars, mvars, ivars, avars, logLevel, logger, lastLog,
                   logged>>

(***************************************************************************)
(* MessageHandler: incoming messages.                                      *)
(***************************************************************************)
\* the listeners WhatsAppClient.setupEventHandlers registers on the
\* transport manager, by event: none calls the message handler
TransportListeners(event) ==
    IF event \in {"transport:connected", "transport:disconnected",
                  "transport:error"}
    THEN {"WhatsAppClient"}
    ELSE {}

\* an envelope made with the keys of a stored session that carries its
\* message key as a string
CraftedEnvelope(session, message) ==
    encryptEnvelope(
        [EnvelopeJson(session.recipientId, message, "text", session, 97, 1)
            EXCEPT !.messageKey = [kind |-> "String", bytes |-> 97]],
        session)

\* what handleIncomingMessage may be handed as encryptedContent
IncomingCandidates ==
    Candidates
        \cup {CraftedEnvelope(sessionStore[p], "hi") :
                 p \in {q \in Peers : sessionStore[q] # NoSession}}

\* (mutation) the catch block records the message all the same
OnIncomingError_Stores(received, id) == received \cup {id}

\* the catch block of handleIncomingMessage: it logs and throws again, the
\* map of received messages stays as it was
OnIncomingError(received, id) == received

\* handleIncomingMessage(messageData) up to the return of decryptMessage: a
\* failure is logged and thrown again
IncomingCall(from, id, encryptedContent) ==
    /\ incoming.pc # "decrypted"
    /\ incoming.id < caps.inbound
    /\ LET r == decryptMessageResult(getSession(from), encryptedContent)
       IN /\ incoming' = [pc |-> IF r.ok THEN "decrypted" ELSE "failed",
                          from |-> from, id |-> id, err |-> r.err,
                          content |-> r.content, frame |-> 0]
          /\ receivedMessages' =
                 IF r.ok THEN receivedMessages
                 ELSE OnIncomingError(receivedMessages, id)
    /\ UNCHANGED <<clientMessages, cvars, mvars, rvars, caps, uvars,
                   tvars, sendLog, lastSend, failures, scheduledSince,
                   closedByCaller, exhausted, callsAtClose, nDisc, everConnected>>

\* handleIncomingMessage after decryptMessage: the message is stored,
\* 'message:received' makes the client emit 'message', and the read receipt
\* is sent (sendReadReceipt logs a failure and goes on)
IncomingFinish ==
    /\ ~ClosePending
    /\ incoming.pc = "decrypted"
    /\ receivedMessages' = receivedMessages \cup {incoming.id}
    /\ clientMessages' = Append(clientMessages,
           [id |-> incoming.id, from |-> incoming.from,
            content |-> incoming.content, frame |-> incoming.frame])
    /\ \E gen \in GeneratedIds, now \in Clock :
           sendMessage(6, ReadReceiptData(incoming.id, incoming.from), NoId,
                       gen, now)
    /\ incoming' = [incoming EXCEPT !.pc = "done"]
    /\ emitted' = <<>>
    /\ UNCHANGED <<tvars_but_wire, failures, scheduledSince, closedByCaller, exhausted,
                   callsAtClose, nDisc, everConnected, caps, cvars, rvars,
                   mvars, uvars>>

IncomingCallAny ==
    \E from \in Peers, e \in IncomingCandidates :
        IncomingCall(from, incoming.id + 1, e)

(***************************************************************************)
(* Specifications of the transport.                                        *)
(***************************************************************************)
TransportInit ==
    /\ isConnected = FALSE
    /\ socket = 0
    /\ reconnectAttempts = 0
    /\ heartbeatInterval = 0
    /\ nsock = 0
    /\ sockState = [s \in Sockets |-> "unused"]
    /\ connectWait = [s \in Sockets |-> "none"]
    /\ timers = <<>>
    /\ intervals = {}
    /\ wire = [s \in Sockets |-> <<>>]
    /\ emitted = <<>>
    /\ sendLog = <<>>
    /\ lastSend = [ok |-> TRUE, err |-> "", id |-> NoId, idArg |-> NoId,
                   len |-> 0]
    /\ failures = 0
    /\ scheduledSince = <<>>
    /\ closedByCaller = FALSE
    /\ exhausted = FALSE
    /\ callsAtClose = 0
    /\ nDisc = 0
    /\ everConnected = FALSE

LifecycleNext ==
    \/ Connect
    \/ ReconnectTimerFire
    \/ \E s \in Sockets : SocketConnect(s)
    \/ \E s \in Sockets : ConnectTimeout(s)
    \/ \E s \in Sockets : SocketError(s)
    \/ \E s \in Sockets : SocketEnd(s)
    \/ \E s \in Sockets : SocketClose(s)
    \/ Disconnect

\* the connection lifecycle: connect, socket events, reconnection, disconnect
Init ==
    /\ TransportInit
    /\ CryptoInitState
    /\ ReceiveIdle
    /\ ClientInitState
    /\ logLevel = ""
    /\ LoggerInitState
    /\ SyncInitState
    /\ ClientCallIdle
    /\ phoneNumber = "me"
    /\ caps = [sock |-> MaxSockets, disc |-> MaxDisconnects, send |-> 0,
               task |-> 0, msg |-> 0, bytes |-> 0, inbound |-> 0,
               auth |-> 0, verify |-> 0, group |-> 0]

Spec == Init /\ [][LifecycleNext]_vars

\* sendMessage callers and the heartbeat timer over connect, socket failure,
\* reconnection and disconnect
SendInit ==
    /\ TransportInit
    /\ CryptoInitState
    /\ ReceiveIdle
    /\ ClientInitState
    /\ logLevel = ""
    /\ LoggerInitState
    /\ SyncInitState
    /\ ClientCallIdle
    /\ phoneNumber = "me"
    /\ caps = [sock |-> SendSockets, disc |-> SendDisconnects,
               send |-> MaxSends, task |-> 0, msg |-> 0, bytes |-> 0, inbound |-> 0,
               auth |-> 0, verify |-> 0, group |-> 0]

SendNext ==
    \/ Connect
    \/ ReconnectTimerFire
    \/ \E s \in Sockets : SocketConnect(s)
    \/ \E s \in Sockets : SocketError(s)
    \/ \E s \in Sockets : SocketClose(s)
    \/ Disconnect
    \/ SendMessage
    \/ HeartbeatTick

SendSpec == SendInit /\ [][SendNext]_vars

\* callers of sendMessage and the heartbeat timer sharing one manager
WireInit ==
    /\ TransportInit
    /\ CryptoInitState
    /\ ReceiveIdle
    /\ ClientInitState
    /\ logLevel = ""
    /\ LoggerInitState
    /\ SyncInitState
    /\ ClientCallIdle
    /\ phoneNumber = "me"
    /\ caps = [sock |-> WireSockets, disc |-> 0, send |-> WireSends,
               task |-> 0, msg |-> 0, bytes |-> 0, inbound |-> 0,
               auth |-> 0, verify |-> 0, group |-> 0]

WireNext ==
    \/ Connect
    \/ \E s \in Sockets : SocketConnect(s)
    \/ WireSend
    \/ HeartbeatTick

WireSpec == WireInit /\ [][WireNext]_vars

\* one manager sending frames of every shape
CodecInit ==
    /\ TransportInit
    /\ CryptoInitState
    /\ ReceiveIdle
    /\ ClientInitState
    /\ logLevel = ""
    /\ LoggerInitState
    /\ SyncInitState
    /\ ClientCallIdle
    /\ phoneNumber = "me"
    /\ caps = [sock |-> CodecSockets, disc |-> 0, send |-> CodecSends,
               task |-> 0, msg |-> 0, bytes |-> CodecBytes, inbound |-> 0,
               auth |-> 0, verify |-> 0, group |-> 0]

CodecNext ==
    \/ Connect
    \/ \E s \in Sockets : SocketConnect(s)
    \/ CodecSend
    \/ OversizeSend

CodecSpec == CodecInit /\ [][CodecNext]_vars

\* the crypto manager under concurrent callers
CryptoInit ==
    /\ TransportInit
    /\ CryptoInitState
    /\ ReceiveIdle
    /\ ClientInitState
    /\ logLevel = ""
    /\ LoggerInitState
    /\ SyncInitState
    /\ ClientCallIdle
    /\ phoneNumber = "me"
    /\ caps = [sock |-> 0, disc |-> 0, send |-> 0,
               task |-> MaxTasks, msg |-> 0, bytes |-> 0, inbound |-> 0,
               auth |-> 0, verify |-> 0, group |-> 0]

CryptoNext ==
    \/ \E t \in Tasks, op \in {"getOrCreateSession", "encryptMessage"},
          peer \in Peers, msg \in Messages : StartCall(t, op, peer, msg)
    \/ \E t \in Tasks : StoreSession(t)
    \/ \E t \in Tasks : FinishEncrypt(t)

CryptoSpec == CryptoInit /\ [][CryptoNext]_vars

\* the crypto manager with envelopes coming back in to decryptMessage
EnvelopeNext ==
    \/ CryptoNext
    \/ DecryptCall

EnvelopeInit ==
    /\ TransportInit
    /\ CryptoInitState
    /\ ReceiveIdle
    /\ ClientInitState
    /\ logLevel = ""
    /\ LoggerInitState
    /\ SyncInitState
    /\ ClientCallIdle
    /\ phoneNumber = "me"
    /\ caps = [sock |-> 0, disc |-> 0, send |-> 0,
               task |-> EnvelopeTasks, msg |-> 0, bytes |-> 0, inbound |-> 0,
               auth |-> 0, verify |-> 0, group |-> 0]

EnvelopeSpec == EnvelopeInit /\ [][EnvelopeNext]_vars

\* crypto calls for two peers, and envelopes handed to decryptMessage under
\* either peer's name
PeerNext ==
    \/ CryptoNext
    \/ CrossDecryptCall

PeerInit ==
    /\ TransportInit
    /\ CryptoInitState
    /\ ReceiveIdle
    /\ ClientInitState
    /\ logLevel = ""
    /\ LoggerInitState
    /\ SyncInitState
    /\ ClientCallIdle
    /\ phoneNumber = "me"
    /\ caps = [sock |-> 0, disc |-> 0, send |-> 0,
               task |-> PeerTasks, msg |-> 0, bytes |-> 0, inbound |-> 0,
               auth |-> 0, verify |-> 0, group |-> 0]

PeerSpec == PeerInit /\ [][PeerNext]_vars

\* messages sent through the handler over one connection
MsgInit ==
    /\ TransportInit
    /\ CryptoInitState
    /\ ReceiveIdle
    /\ ClientInitState
    /\ logLevel = ""
    /\ LoggerInitState
    /\ SyncInitState
    /\ ClientCallIdle
    /\ phoneNumber = "me"
    /\ caps = [sock |-> MsgSockets, disc |-> 0, send |-> MaxMsgs,
               task |-> MsgTasks, msg |-> MaxMsgs, bytes |-> 0, inbound |-> 0,
               auth |-> 0, verify |-> 0, group |-> 0]

MsgNext ==
    \/ Connect
    \/ \E s \in Sockets : SocketConnect(s)
    \/ AuthSuccess
    \/ HandlerCallAny
    \/ \E t \in Tasks : StoreSession(t)
    \/ \E t \in Tasks : FinishEncrypt(t)
    \/ \E t \in Tasks : HandlerSend(t)

MsgSpec == MsgInit /\ [][MsgNext]_vars

\* a client that is started, authenticates and verifies as a day passes
AuthInit ==
    /\ TransportInit
    /\ CryptoInitState
    /\ ReceiveIdle
    /\ ClientInitState
    /\ logLevel = ""
    /\ LoggerInitState
    /\ SyncInitState
    /\ ClientCallIdle
    /\ phoneNumber \in {"", "me"}
    /\ caps = [sock |-> AuthSockets, disc |-> 0, send |-> 0, task |-> 0,
               msg |-> 0, bytes |-> 0, inbound |-> 0,
               auth |-> MaxAuthCalls, verify |-> MaxVerifies, group |-> 0]

AuthNext ==
    \/ ClientStart
    \/ \E s \in Sockets : SocketConnect(s)
    \/ StartConnected
    \/ AuthenticateCall
    \/ SmsSent
    \/ VerifyCall
    \/ VerifyDone
    \/ Tick

AuthSpec == AuthInit /\ [][AuthNext]_vars

\* a client whose operations are called before and after it authenticates
GuardInit ==
    /\ TransportInit
    /\ CryptoInitState
    /\ ReceiveIdle
    /\ ClientInitState
    /\ logLevel = ""
    /\ LoggerInitState
    /\ SyncInitState
    /\ ClientCallIdle
    /\ phoneNumber = "me"
    /\ caps = [sock |-> 1, disc |-> 0, send |-> MaxClientCalls, task |-> 0,
               msg |-> 0, bytes |-> 0, inbound |-> 0,
               auth |-> 0, verify |-> 0, group |-> 0]

GuardNext ==
    \/ Connect
    \/ \E s \in Sockets : SocketConnect(s)
    \/ AuthSuccess
    \/ ClientCall
    \/ StoreMessage
    \/ \E t \in SyncTasks : SyncFinish(t)

GuardSpec == GuardInit /\ [][GuardNext]_vars

\* a client that authenticates, verifies and logs out
LogoutInit ==
    /\ TransportInit
    /\ CryptoInitState
    /\ ReceiveIdle
    /\ ClientInitState
    /\ logLevel = ""
    /\ LoggerInitState
    /\ SyncInitState
    /\ ClientCallIdle
    /\ phoneNumber \in {"", "me"}
    /\ caps = [sock |-> 0, disc |-> 0, send |-> 0, task |-> 0,
               msg |-> 0, bytes |-> 0, inbound |-> 0,
               auth |-> MaxAuthCalls, verify |-> MaxVerifies, group |-> 0]

LogoutNext ==
    \/ AuthenticateCall
    \/ SmsSent
    \/ VerifyCall
    \/ VerifyDone
    \/ VerifyFailed
    \/ Logout
    \/ Tick

LogoutSpec == LogoutInit /\ [][LogoutNext]_vars

\* an authenticated client that creates groups and adds participants
GroupInit ==
    /\ TransportInit
    /\ CryptoInitState
    /\ ReceiveIdle
    /\ ClientInitState
    /\ logLevel = ""
    /\ LoggerInitState
    /\ SyncInitState
    /\ ClientCallIdle
    /\ phoneNumber = "me"
    /\ caps = [sock |-> GroupSockets, disc |-> 0, send |-> 0, task |-> 0,
               msg |-> 0, bytes |-> 0, inbound |-> 0,
               auth |-> 0, verify |-> 0, group |-> MaxGroupCalls]

GroupNext ==
    \/ Connect
    \/ \E s \in Sockets : SocketConnect(s)
    \/ AuthSuccess
    \/ CreateGroup
    \/ AddGroupParticipants

GroupSpec == GroupInit /\ [][GroupNext]_vars

\* connections that fail until attemptReconnect gives up
BudgetInit ==
    /\ TransportInit
    /\ CryptoInitState
    /\ ReceiveIdle
    /\ ClientInitState
    /\ logLevel = ""
    /\ LoggerInitState
    /\ SyncInitState
    /\ ClientCallIdle
    /\ phoneNumber = "me"
    /\ caps = [sock |-> BudgetSockets, disc |-> 0, send |-> 0, task |-> 0,
               msg |-> 0, bytes |-> 0, inbound |-> 0,
               auth |-> 0, verify |-> 0, group |-> 0]

BudgetNext ==
    \/ Connect
    \/ ReconnectTimerFire
    \/ \E s \in Sockets : SocketConnect(s)
    \/ \E s \in Sockets : SocketError(s)
    \/ \E s \in Sockets : SocketClose(s)

BudgetSpec == BudgetInit /\ [][BudgetNext]_vars

\* frames arriving on a connection, and calls of handleIncomingMessage
InboundInit ==
    /\ TransportInit
    /\ CryptoInitState
    /\ ClientInitState
    /\ logLevel = ""
    /\ LoggerInitState
    /\ SyncInitState
    /\ ClientCallIdle
    /\ phoneNumber = "me"
    /\ caps = [sock |-> InboundSockets, disc |-> 0, send |-> MaxInbound,
               task |-> InboundTasks, msg |-> 0, bytes |-> 0,
               inbound |-> MaxInbound,
               auth |-> 0, verify |-> 0, group |-> 0]
    /\ buffer = <<>>
    /\ dispatched = <<>>
    /\ pos = 0
    /\ whole \in MessageFrames
    /\ cuts = {}

InboundNext ==
    \/ Connect
    \/ \E s \in Sockets : SocketConnect(s)
    \/ ConnectedData
    \/ \E t \in Tasks, peer \in Peers :
           StartCall(t, "encryptMessage", peer, "hi")
    \/ \E t \in Tasks : StoreSession(t)
    \/ \E t \in Tasks : FinishEncrypt(t)
    \/ IncomingCallAny
    \/ IncomingFinish

InboundSpec == InboundInit /\ [][InboundNext]_vars

\* a malformed frame and a text frame behind it arriving on a connection in
\* up to MaxChunks data events
MalformedInit ==
    /\ TransportInit
    /\ CryptoInitState
    /\ ClientInitState
    /\ logLevel = ""
    /\ LoggerInitState
    /\ SyncInitState
    /\ ClientCallIdle
    /\ phoneNumber = "me"
    /\ caps = [sock |-> MalformedSockets, disc |-> 0, send |-> 0,
               task |-> 0, msg |-> 0, bytes |-> 0, inbound |-> 0,
               auth |-> 0, verify |-> 0, group |-> 0]
    /\ buffer = <<>>
    /\ dispatched = <<>>
    /\ pos = 0
    /\ whole \in {m \o EncodeFrame(1, <<1, 2>>, <<0, 2>>, <<104, 105>>) :
                     m \in MalformedFrames}
    /\ cuts \in {c \in SUBSET (1..13) :
                   /\ Cardinality(c) < MaxChunks
                   /\ \A x \in c : x < Len(whole)}

MalformedNext ==
    \/ Connect
    \/ \E s \in Sockets : SocketConnect(s)
    \/ ConnectedData

MalformedSpec == MalformedInit /\ [][MalformedNext]_vars

\* a frame of an unknown type and a text frame behind it arriving on a
\* connection in up to MaxChunks data events
UnknownInit ==
    /\ TransportInit
    /\ CryptoInitState
    /\ ClientInitState
    /\ logLevel = ""
    /\ LoggerInitState
    /\ SyncInitState
    /\ ClientCallIdle
    /\ phoneNumber = "me"
    /\ caps = [sock |-> UnknownSockets, disc |-> 0, send |-> 0,
               task |-> 0, msg |-> 0, bytes |-> 0, inbound |-> 0,
               auth |-> 0, verify |-> 0, group |-> 0]
    /\ buffer = <<>>
    /\ dispatched = <<>>
    /\ pos = 0
    /\ whole \in UnknownThenText
    /\ cuts \in CutSets(Len(whole) - 1, MaxChunks - 1)

UnknownNext ==
    \/ Connect
    \/ \E s \in Sockets : SocketConnect(s)
    \/ ConnectedData

UnknownSpec == UnknownInit /\ [][UnknownNext]_vars

\* an authenticated client that sends messages while the interval and
\* forceSync callers run performSync and the clock advances
SyncInit ==
    /\ TransportInit
    /\ CryptoInitState
    /\ ReceiveIdle
    /\ ClientInitState
    /\ logLevel = ""
    /\ LoggerInitState
    /\ SyncInitState
    /\ ClientCallIdle
    /\ phoneNumber = "me"
    /\ caps = [sock |-> 0, disc |-> 0, send |-> 0, task |-> 0, msg |-> 0,
               bytes |-> 0, inbound |-> 0, auth |-> 0, verify |-> 0,
               group |-> 0]

SyncNext ==
    \/ AuthSuccess
    \/ Tick
    \/ BuildMessage
    \/ StoreMessage
    \/ PeriodicSync
    \/ ForceSync
    \/ \E t \in SyncTasks : SyncFinish(t)

SyncSpec == SyncInit /\ [][SyncNext]_vars

\* a text frame arriving in pieces on a connection that may fail and be
\* re-established between two pieces
RebufferInit ==
    /\ TransportInit
    /\ CryptoInitState
    /\ ClientInitState
    /\ logLevel = ""
    /\ LoggerInitState
    /\ SyncInitState
    /\ ClientCallIdle
    /\ phoneNumber = "me"
    /\ caps = [sock |-> RebufferSockets, disc |-> 0, send |-> 0,
               task |-> 0, msg |-> 0, bytes |-> 0, inbound |-> 0,
               auth |-> 0, verify |-> 0, group |-> 0]
    /\ buffer = <<>>
    /\ dispatched = <<>>
    /\ pos = 0
    /\ whole = EncodeFrame(1, <<1, 2>>, <<0, 2>>, <<104, 105>>)
    /\ cuts \in CutSets(Len(whole) - 1, MaxChunks - 1)

RebufferNext ==
    \/ Connect
    \/ ReconnectTimerFire
    \/ \E s \in Sockets : SocketConnect(s)
    \/ \E s \in Sockets : SocketError(s)
    \/ \E s \in Sockets : SocketClose(s)
    \/ ConnectedData

RebufferSpec == RebufferInit /\ [][RebufferNext]_vars

\* an authenticated client whose groups gain and lose participants and
\* admins
AdminInit ==
    /\ TransportInit
    /\ CryptoInitState
    /\ ReceiveIdle
    /\ ClientInitState
    /\ logLevel = ""
    /\ LoggerInitState
    /\ SyncInitState
    /\ ClientCallIdle
    /\ phoneNumber = "me"
    /\ caps = [sock |-> 0, disc |-> 0, send |-> 0, task |-> 0,
               msg |-> 0, bytes |-> 0, inbound |-> 0,
               auth |-> 0, verify |-> 0, group |-> AdminCalls]

AdminNext ==
    \/ AuthSuccess
    \/ CreateGroup
    \/ AddGroupParticipants
    \/ RemoveGroupParticipants
    \/ PromoteToAdmin
    \/ DemoteFromAdmin
    \/ LeaveGroup

AdminSpec == AdminInit /\ [][AdminNext]_vars

\* calls of handleIncomingMessage on a connected client
IncomingInit ==
    /\ TransportInit
    /\ CryptoInitState
    /\ ReceiveIdle
    /\ ClientInitState
    /\ logLevel = ""
    /\ LoggerInitState
    /\ SyncInitState
    /\ ClientCallIdle
    /\ phoneNumber = "me"
    /\ caps = [sock |-> InboundSockets, disc |-> 0, send |-> MaxInbound,
               task |-> InboundTasks, msg |-> 0, bytes |-> 0,
               inbound |-> MaxInbound,
               auth |-> 0, verify |-> 0, group |-> 0]

IncomingNext ==
    \/ Connect
    \/ \E s \in Sockets : SocketConnect(s)
    \/ \E t \in Tasks, peer \in Peers :
           StartCall(t, "encryptMessage", peer, "hi")
    \/ \E t \in Tasks : StoreSession(t)
    \/ \E t \in Tasks : FinishEncrypt(t)
    \/ IncomingCallAny
    \/ IncomingFinish

IncomingSpec == IncomingInit /\ [][IncomingNext]_vars

\* a client built with any logLevel option, whose logger is called
LoggerInit ==
    /\ TransportInit
    /\ CryptoInitState
    /\ ReceiveIdle
    /\ ClientInitState
    /\ phoneNumber = "me"
    /\ logLevel \in LogLevels \cup {""}
    /\ LoggerInitState
    /\ SyncInitState
    /\ ClientCallIdle
    /\ caps = [sock |-> 0, disc |-> 0, send |-> 0, task |-> 0, msg |-> 0,
               bytes |-> 0, inbound |-> 0, auth |-> 0, verify |-> 0,
               group |-> 0]

LoggerNext == \E level \in LogLevels : LogCall(level)

LoggerSpec == LoggerInit /\ [][LoggerNext]_vars

\* one connect() by the caller, then sockets that connect, fail and close
\* while the manager reconnects on its own; a timer that is due fires and a
\* socket that failed reports 'close'
ReconnectInit ==
    /\ TransportInit
    /\ CryptoInitState
    /\ ReceiveIdle
    /\ ClientInitState
    /\ logLevel = ""
    /\ LoggerInitState
    /\ SyncInitState
    /\ ClientCallIdle
    /\ phoneNumber = "me"
    /\ caps = [sock |-> ReconnectSockets, disc |-> 0, send |-> 0, task |-> 0,
               msg |-> 0, bytes |-> 0, inbound |-> 0, auth |-> 0,
               verify |-> 0, group |-> 0]

FirstConnect ==
    /\ nsock = 0
    /\ Connect

ReconnectNext ==
    \/ FirstConnect
    \/ ReconnectTimerFire
    \/ \E s \in Sockets : SocketConnect(s)
    \/ \E s \in Sockets : SocketError(s)
    \/ \E s \in Sockets : SocketEnd(s)
    \/ \E s \in Sockets : SocketClose(s)

ReconnectFairSpec ==
    /\ ReconnectInit
    /\ [][ReconnectNext]_vars
    /\ WF_vars(ReconnectTimerFire)
    /\ \A s \in Sockets : WF_vars(SocketClose(s))

\* one frame arriving in up to MaxChunks data events, cut at any byte
FrameInit ==
    /\ TransportInit
    /\ CryptoInitState
    /\ ClientInitState
    /\ logLevel = ""
    /\ LoggerInitState
    /\ SyncInitState
    /\ ClientCallIdle
    /\ phoneNumber = "me"
    /\ caps = [sock |-> 0, disc |-> 0, send |-> 0,
               task |-> 0, msg |-> 0, bytes |-> 0, inbound |-> 0,
               auth |-> 0, verify |-> 0, group |-> 0]
    /\ buffer = <<>>
    /\ dispatched = <<>>
    /\ pos = 0
    /\ whole \in ValidFrames
    /\ cuts \in {c \in SUBSET (1..13) :
                   /\ Cardinality(c) < MaxChunks
                   /\ \A x \in c : x < Len(whole)}

FrameNext == DataEvent

FrameSpec == FrameInit /\ [][FrameNext]_vars

(***************************************************************************)
(* Properties of the transport.                                            *)
(***************************************************************************)
MaxReconnectEmitted ==
    \E i \in 1..Len(emitted) : emitted[i] = "transport:max_reconnect_attempts"

\* C1: as long as the caller has not disconnected, the failures since the
\* last successful connect have scheduled exactly one reconnection each, with
\* delays 1000, 2000, 4000, 8000, 16000 in that order; nothing is scheduled
\* from the sixth failure on, and the max-reconnect notification is emitted
\* only then.
C1_BackoffPerFailure ==
    (everConnected /\ nDisc = 0) =>
        /\ scheduledSince = SubSeq(<<1000, 2000, 4000, 8000, 16000>>, 1,
                                   Min(failures, 5))
        /\ MaxReconnectEmitted => failures >= 6

\* C2: once disconnect() has been called and until the caller calls
\* connect(), no connection attempt is started, the manager is not connected
\* and, when the tick of the call is over, no reconnection is scheduled.
C2_ClosedStaysClosed ==
    closedByCaller =>
        /\ nsock = callsAtClose
        /\ ~isConnected
        /\ ~ClosePending => timers = <<>>

\* C8: a sendMessage call (from a caller or from the heartbeat timer) made
\* while isConnected is false or there is no socket fails with the
\* not-connected error, writes nothing and changes no connection state.
C8_SendRefusedWhenNotConnected ==
    [][((~isConnected \/ socket = 0) /\ (SendMessage \/ HeartbeatTick)) =>
          /\ ~lastSend'.ok
          /\ lastSend'.err = "Not connected to server"
          /\ wire' = wire
          /\ sendLog' = sendLog
          /\ UNCHANGED tvars_but_wire]_vars

\* C8 witness: after a frame was written the connection failed, and a send
\* was refused while a reconnection is pending
C8_Witness ==
    /\ sendLog # <<>>
    /\ nDisc = 0
    /\ lastSend.err = "Not connected to server"
    /\ timers # <<>>
    /\ socket # 0
    /\ ~isConnected

\* the frames a byte stream holds, read the way the receiver reads them
RECURSIVE DecodeStream(_)
DecodeStream(bytes) ==
    LET r == parseMessage(bytes)
    IN  IF ~r.got
        THEN [msgs |-> <<>>, rest |-> r.rest]
        ELSE LET t == DecodeStream(r.rest)
             IN  [msgs |-> <<[type |-> r.msg.type, id |-> r.msg.id,
                              timestamp |-> r.msg.timestamp,
                              data |-> r.msg.data]>> \o t.msgs,
                  rest |-> t.rest]

\* the inputs of the sendMessage calls that wrote to socket s, in call order
RECURSIVE LogFor(_, _)
LogFor(log, s) ==
    IF log = <<>> THEN <<>>
    ELSE LET h == Head(log)
         IN  (IF h.sock = s
              THEN <<[type |-> h.type, id |-> h.id, timestamp |-> h.timestamp,
                      data |-> h.data]>>
              ELSE <<>>) \o LogFor(Tail(log), s)

\* C9: the byte stream written to a socket is a sequence of complete frames,
\* one per sendMessage call that wrote to it, each decoding to exactly the
\* type, id, timestamp and payload of that call, with no bytes left over.
C9_WireIsWholeFrames ==
    \A s \in Sockets :
        LET d == DecodeStream(wire[s])
        IN  d.rest = <<>> /\ d.msgs = LogFor(sendLog, s)

\* C9 witness: three frames on one socket, a heartbeat between two sends
C9_Witness ==
    /\ Len(sendLog) = 3
    /\ sendLog[1].type # HeartbeatType
    /\ sendLog[2].type = HeartbeatType
    /\ sendLog[3].type # HeartbeatType
    /\ sendLog[3].data # <<>>
    /\ \A i \in 1..3 : sendLog[i].sock = 1

(***************************************************************************)
(* Properties of the crypto manager.                                       *)
(***************************************************************************)
HoldsSession(t) == task[t].pc \in {"haveSession", "done"}

\* C3: whatever the interleaving of getOrCreateSession and encryptMessage
\* calls, createSession runs at most once per peer and every caller that has
\* obtained its session holds the session stored for that peer.
C3_OneSessionPerPeer ==
    /\ \A p \in Peers : created[p] <= 1
    /\ \A t \in Tasks : HoldsSession(t) => task[t].session = sessionStore[task[t].peer]

\* the encryptMessage calls whose envelope, peer and session are those of
\* the latest decryptMessage call
EncryptedBy ==
    {t \in Tasks : /\ task[t].pc = "done"
                   /\ task[t].op = "encryptMessage"
                   /\ task[t].env = lastDecrypt.env
                   /\ task[t].peer = lastDecrypt.senderId
                   /\ task[t].session = lastDecrypt.session}

\* C5: decryptMessage of an envelope that encryptMessage produced for the
\* same peer under the same stored session succeeds and returns the message
\* that was encrypted.
C5_EnvelopeRoundTrip ==
    lastDecrypt.called =>
        \A t \in EncryptedBy : lastDecrypt.ok /\ lastDecrypt.content = task[t].msg

\* the envelope of the latest decryptMessage call is a produced envelope
\* whose ciphertext or signature was changed
Tampered ==
    /\ lastDecrypt.called
    /\ lastDecrypt.session # NoSession
    /\ \/ lastDecrypt.env.ciphertext.flip # 0
       \/ lastDecrypt.env.signature.flip # 0
       \/ lastDecrypt.env.signature.over # lastDecrypt.env.ciphertext

\* C6: decryptMessage of an envelope whose ciphertext or signature was
\* changed fails with the signature error, before any decipher step, and
\* returns no content.
C6_TamperedRejected ==
    Tampered =>
        /\ ~lastDecrypt.ok
        /\ lastDecrypt.err = "Invalid message signature"
        /\ ~lastDecrypt.deciphered
        /\ lastDecrypt.content = ""

\* C6 witness: an envelope made under the stored session was rejected after
\* a change to its ciphertext
C6_Witness ==
    /\ Tampered
    /\ lastDecrypt.env.ciphertext.flip # 0
    /\ lastDecrypt.env.signature.flip = 0
    /\ lastDecrypt.env.ciphertext.key = lastDecrypt.session.chainKey
    /\ lastDecrypt.err = "Invalid message signature"

\* C7: a decryptMessage call for a peer with no stored session fails with
\* the no-session error and leaves the session store as it was.
C7_UnknownSessionRejected ==
    [][\A p \in Peers :
          (sessionStore[p] = NoSession
             /\ \E e \in Candidates : DecryptMessage(p, e)) =>
              /\ sessionStore' = sessionStore
              /\ ~lastDecrypt'.ok
              /\ lastDecrypt'.err = "No session found with sender"]_vars

\* C7 witness: a decrypt was refused for a peer without session while
\* another peer has one
C7_Witness ==
    /\ lastDecrypt.called
    /\ lastDecrypt.session = NoSession
    /\ lastDecrypt.err = "No session found with sender"
    /\ sessionStore[lastDecrypt.senderId] = NoSession
    /\ \E p \in Peers : sessionStore[p] # NoSession

(***************************************************************************)
(* Properties of the receiving side.                                       *)
(***************************************************************************)
\* C10: when the bytes of one valid frame have arrived, in however many
\* data events and wherever they were cut, exactly one message has been
\* handled, it is the one handled when the frame arrives in a single data
\* event, and the buffer is empty.
C10_SplitFrameDispatchedOnce ==
    pos = Len(whole) =>
        /\ buffer = <<>>
        /\ Len(dispatched) = 1
        /\ dispatched = handleIncomingData(<<>>, whole).handled
        /\ whole = EncodeFrame(dispatched[1].type, dispatched[1].id,
                               dispatched[1].timestamp, dispatched[1].data)

\* C10 witness: a frame arrived in three pieces, the first cut inside the
\* length prefix
C10_Witness ==
    /\ pos = Len(whole)
    /\ Cardinality(cuts) = 2
    /\ 1 \in cuts
    /\ Len(whole) > 11
    /\ Len(dispatched) = 1

(***************************************************************************)
(* Properties of the message handler.                                      *)
(***************************************************************************)
\* needle occurs in hay
Contains(hay, needle) ==
    \E i \in 1..(Len(hay) - Len(needle) + 1) :
        SubSeq(hay, i, i + Len(needle) - 1) = needle

\* C4: for every message the handler sent, what it handed to the transport
\* is the envelope encryptMessage returned, and the bytes of the plaintext
\* do not occur in the payload of the frame written for it.
C4_EnvelopeOnWire ==
    \A i \in DOMAIN handlerLog :
        handlerLog[i].ok =>
            /\ handlerLog[i].handed = handlerLog[i].envelope
            /\ ~Contains(sendLog[handlerLog[i].frame].data,
                         Utf8(handlerLog[i].content))

(***************************************************************************)
(* Properties of the frame format.                                         *)
(***************************************************************************)
\* the id a caller asked for: the argument, or the generated one for null
RequestedId(entry) == IF entry.idArg = NoId THEN entry.id ELSE entry.idArg

\* C11: the bytes written by a sendMessage call decode to a frame with the
\* type, the id, the timestamp and the payload of the call, and their
\* length prefix is 9 + the payload length.
C11_FrameRoundTrip ==
    \A s \in Sockets :
        LET d == DecodeStream(wire[s])
            log == SelectSeq(sendLog, LAMBDA e : e.sock = s)
        IN  /\ Len(d.msgs) = Len(log)
            /\ \A i \in 1..Len(log) :
                   /\ d.msgs[i].type = log[i].type
                   /\ d.msgs[i].id = RequestedId(log[i])
                   /\ d.msgs[i].timestamp = log[i].timestamp
                   /\ d.msgs[i].data = log[i].data
            /\ (Len(log) = 1 =>
                   ReadU16BE(wire[s], 0) = HeaderLen + Len(log[1].data))

\* C16: a sendMessage call whose payload is longer than 65526 bytes throws,
\* writes nothing and changes no connection state.
C16_OversizeRejected ==
    [][OversizeSend =>
          /\ ~lastSend'.ok
          /\ wire' = wire
          /\ sendLog' = sendLog
          /\ UNCHANGED tvars_but_wire]_vars

\* C16 witness: on a connected manager the payload of 65527 bytes was
\* refused because of its length
C16_Witness ==
    /\ isConnected
    /\ socket # 0
    /\ lastSend.len = MaxPayload + 1
    /\ lastSend.err = "ERR_OUT_OF_RANGE"
    /\ wire[socket] = <<>>

(***************************************************************************)
(* Properties of incoming messages.                                        *)
(***************************************************************************)
\* C12: once the bytes of a text, media or group frame have arrived and no
\* handleIncomingMessage call is under way, the frame has been handed to the
\* message handler and the client has emitted 'message' for it.
C12_InboundDelivered ==
    (pos = Len(whole) /\ incoming.pc # "decrypted") =>
        \A i \in DOMAIN dispatched :
            dispatched[i].type \in {1, 2, 3} =>
                /\ TransportListeners(dispatched[i].event) # {}
                /\ \E j \in DOMAIN clientMessages : clientMessages[j].frame = i

\* C17: a handleIncomingMessage call whose decryptMessage fails changes
\* nothing of the transport (connection state, attempt counter, socket,
\* timers, bytes written) and stores nothing in receivedMessages.
C17_DecryptFailureIsLocal ==
    [][(IncomingCallAny /\ incoming'.pc = "failed") =>
          /\ UNCHANGED tvars
          /\ UNCHANGED <<sendLog, receivedMessages, clientMessages>>]_vars

\* C17 witness: on a connected manager an envelope with a changed
\* ciphertext was refused after another message had been received
C17_Witness ==
    /\ isConnected
    /\ incoming.pc = "failed"
    /\ incoming.err = "Invalid message signature"
    /\ receivedMessages # {}
    /\ incoming.id \notin receivedMessages

(***************************************************************************)
(* Properties of the connection life cycle.                                *)
(***************************************************************************)
\* C13: from the emission of 'transport:max_reconnect_attempts' until the
\* caller invokes connect(), no step begins a connection attempt (timers set
\* earlier included) and the manager is not connected.
C13_ExhaustedStaysDown ==
    [][(exhausted /\ exhausted') => (nsock' = nsock /\ ~isConnected')]_vars

\* the connect() call that waits on socket s returns in this step
ConnectSucceeds(s) ==
    /\ connectWait[s] = "pending"
    /\ connectWait'[s] = "none"
    /\ sockState'[s] = "open"

\* the connect() call that waits on socket s throws in this step
ConnectFails(s) ==
    /\ connectWait[s] = "pending"
    /\ connectWait'[s] = "none"
    /\ sockState'[s] # "open"

\* C14: when a connect() call returns, the manager is connected, the attempt
\* counter is 0 and the heartbeat timer it holds is running; when a connect()
\* call throws (socket error or 30 s timeout), the manager is not connected.
C14_ConnectOutcome ==
    [][\A s \in Sockets :
          /\ ConnectSucceeds(s) =>
                 /\ isConnected'
                 /\ reconnectAttempts' = 0
                 /\ heartbeatInterval' # 0
                 /\ heartbeatInterval' \in intervals'
          /\ ConnectFails(s) => ~isConnected']_vars

\* C15: once a frame whose length prefix is 0 or below the 9-byte header
\* has arrived, the manager is no longer connected and a reconnection has
\* been scheduled.
C15_MalformedDropsConnection ==
    pos = Len(whole) => (~isConnected /\ reconnectAttempts > 0)

(***************************************************************************)
(* Properties of the client: start, authentication, groups.                *)
(***************************************************************************)
\* C18: at every 'ready' the client emits at the end of start(),
\* isAuthenticated is true, so that the guard of sendMessage, sendMedia and
\* createGroup lets a call from a 'ready' listener pass.
C18_ReadyIsAuthenticated ==
    \A i \in DOMAIN readyLog : readyLog[i]

\* C19: for a client with a phone number, a call of authenticate() restores
\* the session (authState 'authenticated', 'auth:success', no registration
\* request) exactly when session data exists and is less than 24 hours old;
\* otherwise it makes a registration request and the client is not
\* authenticated.
C19_RestoreOrSms ==
    [][(lastAuth'.n = lastAuth.n + 1 /\ phoneNumber # "") =>
          IF sessionData.present /\ dateNow - sessionData.timestamp < DayMs
          THEN /\ authState' = "authenticated"
               /\ isAuthenticated'
               /\ lastAuth'.events = <<"auth:success">>
               /\ smsRequests' = smsRequests
          ELSE /\ smsRequests' = smsRequests + 1
               /\ authState' = "requesting_code"
               /\ ~isAuthenticated']_vars

Distinct(list) ==
    \A i, j \in DOMAIN list : list[i] = list[j] => i = j

\* C20: the participant list of every group holds each participant at most
\* once, and a successful addParticipants lengthens it by the number of
\* distinct listed participants that were not members.
C20_ParticipantsOnce ==
    /\ \A g \in GroupIds : Distinct(groups[g].participants)
    /\ (lastGroup.ok /\ lastGroup.op = "addParticipants") =>
           Len(groups[lastGroup.id].participants) =
               Len(lastGroup.before)
                 + Cardinality({p \in Contacts :
                       /\ Includes(lastGroup.listed, p)
                       /\ ~Includes(lastGroup.before, p)})

(***************************************************************************)
(* Properties of the logger.                                               *)
(***************************************************************************)
\* C21: a line of level M is output by the client's logger exactly when M is
\* at most as verbose as the logLevel option ('info' when none was given).
C21_LogLevelFilters ==
    lastLog.n > 0 =>
        (lastLog.output <=>
            LevelRank(lastLog.level) <= LevelRank(OptionOr(logLevel, "info")))

(***************************************************************************)
(* Properties of sockets, generations and the heartbeat.                   *)
(***************************************************************************)
LiveSockets == {s \in Sockets : sockState[s] \in {"connecting", "open"}}
PendingConnects == {s \in Sockets : connectWait[s] = "pending"}

\* C22: at most one socket of the manager is connecting or open, at most one
\* connect() call waits for its socket, and no call of connect() begins
\* while the manager is connected or another call waits.
C22_SingleConnection ==
    /\ Cardinality(LiveSockets) <= 1
    /\ Cardinality(PendingConnects) <= 1
    /\ isConnected => PendingConnects = {}

\* socket s reports 'error', 'end' or 'close' in this step
SocketEventOf(s) ==
    /\ sockState'[s] # sockState[s]
    /\ sockState'[s] \in {"errored", "ended", "closed"}

\* C23: 'error', 'end' and 'close' of a socket that this.socket no longer
\* refers to leave isConnected, the attempt counter and the reconnection
\* timers as they are.
C23_StaleSocketEventsIgnored ==
    [][\A s \in Sockets :
          (socket # 0 /\ s # socket /\ SocketEventOf(s)) =>
              /\ isConnected' = isConnected
              /\ reconnectAttempts' = reconnectAttempts
              /\ timers' = timers]_vars

\* C24: no heartbeat interval runs while the manager is not connected, and
\* at most one runs at any time.
C24_HeartbeatOnlyWhileConnected ==
    /\ ~isConnected => intervals = {}
    /\ Cardinality(intervals) <= 1

\* C25: when a socket reports 'close' or 'end' while the manager is connected
\* and the budget is not used up, the manager is not connected afterwards
\* and a reconnection timer is set; a pending timer leads, with no call by
\* the caller, to a call of connect(); and when a connect() call returns the
\* manager is connected with attempt counter 0.
C25_ReconnectsAfterClose ==
    /\ [][\A s \in Sockets :
            (/\ isConnected
             /\ reconnectAttempts < maxReconnectAttempts
             /\ SocketEventOf(s)) =>
                /\ ~isConnected'
                /\ Len(timers') = Len(timers) + 1]_vars
    /\ \A k \in Sockets :
           (nsock = k /\ k < caps.sock /\ timers # <<>>) ~> (nsock > k)
    /\ [][\A s \in Sockets :
            ConnectSucceeds(s) => (isConnected' /\ reconnectAttempts' = 0)]_vars

\* C25 witness: the first socket had connected and is closed, and the manager
\* is connected again on a socket opened by a reconnection timer
C25_Witness ==
    /\ 1 \in intervals
    /\ sockState[1] = "closed"
    /\ socket = 2
    /\ sockState[2] = "open"
    /\ isConnected
    /\ reconnectAttempts = 0

\* C26: a heartbeat tick, whether its send succeeds or fails, leaves
\* isConnected, the attempt counter and the reconnection timers as they are;
\* the attempt counter grows and a reconnection timer is set only in a step
\* in which a socket reports 'error', 'end' or 'close'.
C26_HeartbeatNeverReconnects ==
    /\ [][HeartbeatTick =>
            /\ isConnected' = isConnected
            /\ reconnectAttempts' = reconnectAttempts
            /\ timers' = timers]_vars
    /\ [][(Len(timers') > Len(timers) \/ reconnectAttempts' > reconnectAttempts)
            => \E s \in Sockets : SocketEventOf(s)]_vars

\* C26 witness: the heartbeat interval of a connection that failed fired
\* while the manager was not connected, its send was refused, and the
\* reconnection timer set by the failure is the only one
C26_Witness ==
    /\ ~isConnected
    /\ intervals # {}
    /\ ~lastSend.ok
    /\ lastSend.err = "Not connected to server"
    /\ \E now \in Clock : lastSend.len = Len(HeartbeatData(now))
    /\ nsock = 1
    /\ sockState[1] = "closed"
    /\ Len(timers) = 2

\* C27: a session that is stored for a peer stays stored, with the same
\* sessionId and the same chainKey, whatever call runs next.
C27_StoredSessionKept ==
    [][\A p \in Peers :
          sessionStore[p] # NoSession =>
              /\ sessionStore'[p] # NoSession
              /\ sessionStore'[p].sessionId = sessionStore[p].sessionId
              /\ sessionStore'[p].chainKey = sessionStore[p].chainKey]_vars

\* the encryptMessage calls that produced, for another peer, the envelope of
\* the latest decryptMessage call
EncryptedForOther ==
    {t \in Tasks : /\ task[t].pc = "done"
                   /\ task[t].op = "encryptMessage"
                   /\ task[t].env = lastDecrypt.env
                   /\ task[t].peer # lastDecrypt.senderId}

\* C28: a step of a getOrCreateSession or encryptMessage call for one peer
\* leaves the stored sessions of the other peers as they are; decryptMessage
\* changes no stored session and works with the session of its sender only;
\* and an envelope that encryptMessage produced for one peer, decrypted
\* under the stored session of another peer, fails with the signature error.
C28_PeersIndependent ==
    /\ [][\A t \in Tasks :
            task'[t] # task[t] =>
                \A p \in Peers \ {task'[t].peer} :
                    sessionStore'[p] = sessionStore[p]]_vars
    /\ [][lastDecrypt' # lastDecrypt =>
            /\ sessionStore' = sessionStore
            /\ lastDecrypt'.session = sessionStore[lastDecrypt'.senderId]]_vars
    /\ [](/\ lastDecrypt.called
           /\ lastDecrypt.session # NoSession
           /\ EncryptedForOther # {}
              => /\ ~lastDecrypt.ok
                 /\ lastDecrypt.err = "Invalid message signature"
                 /\ lastDecrypt.content = "")

\* C28 witness: both peers have a session and an envelope made for one was
\* refused under the session of the other
C28_Witness ==
    /\ lastDecrypt.called
    /\ \A p \in Peers : sessionStore[p] # NoSession
    /\ lastDecrypt.session = sessionStore[lastDecrypt.senderId]
    /\ EncryptedForOther # {}
    /\ lastDecrypt.err = "Invalid message signature"

\* the encryptMessage calls for peer p that have returned their envelope
EncryptsDone(p) ==
    {t \in Tasks : /\ task[t].pc = "done"
                   /\ task[t].op = "encryptMessage"
                   /\ task[t].peer = p}

\* C29: the messageCount of the session stored for a peer is the number of
\* encryptMessage calls for that peer that have returned an envelope.
C29_CounterCountsEncrypts ==
    \A p \in Peers :
        sessionStore[p] # NoSession =>
            sessionStore[p].messageCount = Cardinality(EncryptsDone(p))

\* the type codes the protocol defines: 0x01 .. 0x0B
DefinedTypes == 1..11

\* C30: every frame handed to handleMessage whose type is one of the defined
\* codes was emitted on an event channel, and no two defined codes share a
\* channel.
C30_DefinedTypesDispatched ==
    /\ \A i \in 1..Len(dispatched) :
           dispatched[i].type \in DefinedTypes => dispatched[i].event # ""
    /\ \A a, b \in DefinedTypes :
           (a # b /\ EventOf(a) # "") => EventOf(a) # EventOf(b)

\* C31: a frame whose type has no case in handleMessage is handled without
\* an event; the data event that carries it leaves the connection as it
\* was; and the text frame behind it, in the same data event or a later one,
\* is handled and emitted as 'message:text'.
C31_UnknownTypeDropped ==
    /\ [](\A i \in 1..Len(dispatched) :
             dispatched[i].type \in UnknownTypes => dispatched[i].event = "")
    /\ [][pos' # pos =>
            /\ isConnected' = isConnected
            /\ socket' = socket
            /\ sockState' = sockState
            /\ reconnectAttempts' = reconnectAttempts
            /\ timers' = timers
            /\ emitted' = emitted]_vars
    /\ [](pos = Len(whole) =>
            /\ buffer = <<>>
            /\ Len(dispatched) = 2
            /\ dispatched[1].type \in UnknownTypes
            /\ dispatched[2].event = "message:text"
            /\ dispatched[2].data = <<104, 105>>)

\* C31 witness: the unknown frame and the text frame arrived in one data
\* event on an established connection
C31_Witness ==
    /\ isConnected
    /\ cuts = {}
    /\ pos = Len(whole)
    /\ Len(dispatched) = 2
    /\ dispatched[1].type = 255
    /\ dispatched[1].event = ""
    /\ dispatched[2].event = "message:text"

\* C32: between data events the buffer does not start with a complete
\* frame: when it holds a length prefix and more, it holds fewer bytes than
\* 2 + that length.
C32_NoCompleteFrameBuffered ==
    Len(buffer) >= 3 => Len(buffer) < 2 + ReadU16BE(buffer, 0)

\* C33: a sendMessage call that was given an id and wrote its frame has put
\* that id in the frame and has returned it.
C33_ExplicitIdKept ==
    /\ \A i \in 1..Len(sendLog) :
           sendLog[i].idArg # NoId => sendLog[i].id = sendLog[i].idArg
    /\ (lastSend.ok /\ lastSend.idArg # NoId) => lastSend.id = lastSend.idArg

(***************************************************************************)
(* Properties of the synchronisation.                                      *)
(***************************************************************************)
RunningSyncs == {t \in SyncTasks : syncTask[t].pc = "running"}

\* C34: at most one performSync body is between its start and its end, and
\* a performSync call that finds the flag set leaves it set.
C34_OneSyncAtATime ==
    /\ Cardinality(RunningSyncs) <= 1
    /\ RunningSyncs # {} => syncState.syncInProgress

\* the completed syncs that reported message id
ReportsOf(id) == {i \in 1..Len(syncReports) : id \in syncReports[i]}

\* C35: no stored message was reported by two completed syncs, and a stored
\* message that no completed sync has reported is in the changes of a
\* running sync or is newer than lastSyncTimestamp, so that the next sync
\* reports it.
C35_EveryMessageSyncedOnce ==
    \A m \in sentMessages :
        /\ Cardinality(ReportsOf(m.id)) <= 1
        /\ \/ ReportsOf(m.id) # {}
           \/ \E t \in RunningSyncs : m.id \in syncTask[t].changes
           \/ m.timestamp > syncState.lastSyncTimestamp

\* the step emits 'transport:disconnected', which the client forwards as
\* 'disconnected'
EmitsDisconnected ==
    \E i \in 1..Len(emitted') : emitted'[i] = "transport:disconnected"

\* C36: the 'close' of a socket that has already reported 'error' or 'end',
\* or that disconnect() destroyed, schedules no further reconnection, and
\* after 'end' or disconnect(), which have notified the client, it does not
\* notify again.
C36_OneNotificationPerLoss ==
    [][\A s \in Sockets :
          (sockState[s] \in {"errored", "ended", "destroyed"}
             /\ sockState'[s] = "closed") =>
              /\ Len(timers') <= Len(timers)
              /\ reconnectAttempts' = reconnectAttempts
              /\ sockState[s] \in {"ended", "destroyed"} => ~EmitsDisconnected]_vars

\* C37: when a connect() call returns, and when a socket reports 'error' or
\* 'close', the buffer of bytes received and not yet parsed is empty
\* afterwards.
C37_BufferEmptyOnNewConnection ==
    [][\A s \in Sockets :
          (ConnectSucceeds(s) \/ SocketEventOf(s)) => buffer' = <<>>]_vars

(***************************************************************************)
(* Properties of the groups.                                               *)
(***************************************************************************)
\* C40: in every stored group the owner is an admin and every admin is a
\* participant.
C40_OwnerAndAdminsAreMembers ==
    \A g \in GroupIds :
        groups[g] # NoGroup =>
            /\ Includes(groups[g].admins, groups[g].owner)
            /\ \A i \in DOMAIN groups[g].admins :
                   Includes(groups[g].participants, groups[g].admins[i])

(***************************************************************************)
(* Properties of the client's authentication flag.                         *)
(***************************************************************************)
\* C39: the client reports itself authenticated only while the auth manager
\* is in state 'authenticated' and holds session data.
C39_FlagFollowsAuthManager ==
    isAuthenticated => (authState = "authenticated" /\ sessionData.present)

(***************************************************************************)
(* Properties of the client's guarded operations.                          *)
(***************************************************************************)
\* C38: an operation called while isAuthenticated is false fails with
\* 'Client not authenticated' and leaves the message stores, the groups,
\* the device list, the session store and the socket untouched.
C38_UnauthenticatedCallRefused ==
    [][(lastClient'.n # lastClient.n /\ ~isAuthenticated) =>
           /\ ~lastClient'.ok
           /\ lastClient'.err = "Client not authenticated"
           /\ UNCHANGED <<sentMessages, pendingMessages, receivedMessages,
                          groups, groupParticipants, deviceList, syncState,
                          sessionStore, socket, sockState, isConnected, wire,
                          sendLog>>]_vars

\* an operation was refused on a connected, unauthenticated client
C38_Witness ==
    /\ lastClient.n > 0
    /\ lastClient.op = "addDevice"
    /\ lastClient.err = "Client not authenticated"
    /\ ~isAuthenticated
    /\ isConnected

====
